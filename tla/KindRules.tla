------------------------------ MODULE KindRules ------------------------------
(***************************************************************************)
(* What an event must be like for the handler of its kind to take it: the  *)
(* checks every handler makes (ValidateEvent) and those of each kind, which *)
(* are about its tags and its text.  How a value is spelled is given by    *)
(* Formats, the pairs of a tag name and a value that pass.                 *)
(***************************************************************************)
EXTENDS EventStore

CONSTANTS
    Signed,             \* ids of the events whose signature is right
    Now,                \* the clock, in the unit of Event.at; the slack of TimeCheck is one
    Whitelist,          \* allowed kinds among the registered ones
    Registered,         \* kinds the configuration lists as registered
    Handled,            \* kinds with a handler of their own
    AllowUnregistered,
    Formats,
    Emojis, Markdown,   \* texts that are a reaction, texts that are clean markdown
    Blobs               \* hashes of the stored blobs that are MP4

-----------------------------------------------------------------------------
KindAllowed(k) == IF k \in Registered THEN k \in Whitelist ELSE AllowUnregistered
TimeCheck(e)   == e.at <= Now + 1

ValidateEvent(e) == KindAllowed(e.kind) /\ TimeCheck(e) /\ e.id \in Signed

-----------------------------------------------------------------------------
(* One operator per handler: what it demands of an event before it reads or *)
(* writes the store.  What it does then is an action of KindHandlers, shared *)
(* by the handlers that do the same.                                        *)

Named1(e, names) == \E t \in Range(e.tags) : t[1] \in names
Spelled(e, name) == First(e, {name}) # None /\ <<name, First(e, {name})>> \in Formats

\* Stored as they are
Note(e)            == ValidateEvent(e)                                              \* 1
Reaction(e)        == ValidateEvent(e) /\ e.text \in Emojis                         \* 7
BadgeAward(e)      == ValidateEvent(e) /\ Has(e, "a") /\ Has(e, "p")                \* 8
KeyPackage(e)      == ValidateEvent(e) /\                                           \* 443
    \A n \in {"mls_protocol_version", "mls_ciphersuite", "encoding"} : Has(e, n)
GroupEvent(e)      == ValidateEvent(e) /\ Has(e, "h")                               \* 445
GiftWrap(e)        == ValidateEvent(e) /\ Has(e, "p") /\ e.text # "empty"           \* 1059
Zap(e)             == ValidateEvent(e)                                              \* 9735
Highlight(e)       == ValidateEvent(e) /\                                           \* 9802
    \E n \in {"a", "e", "r", "p", "context"} : Has(e, n)
KeyRelays(e)       == ValidateEvent(e) /\ Has(e, "relay")                           \* 10051
Recommendation(e)  == ValidateEvent(e)                                              \* 11011
BadgeDefinition(e) == ValidateEvent(e) /\                                           \* 30009
    \E t \in Range(e.tags) : t[1] = "d" /\ Len(t) = 2
AppData(e)         == ValidateEvent(e)                                              \* 30078

Announcement(e) ==                                                                  \* 77
    /\ ValidateEvent(e) /\ Has(e, "r") /\ Has(e, "type")
    /\ \A v \in Values(e, "type") : <<"type", v>> \in Formats

\* A welcome is sealed and carries no signature of its own.
Welcome(e) ==                                                                       \* 444
    /\ KindAllowed(444) /\ TimeCheck(e)
    /\ \A n \in {"e", "relays", "encoding"} : Has(e, n)

BranchMetadata(e) ==                                                                \* 16630
    /\ ValidateEvent(e) /\ Has(e, "b")
    /\ \E t \in Range(e.tags) : t[1] = "r" /\ Len(t) = 2

ProfileBadges(e) ==                                                                 \* 30008
    /\ ValidateEvent(e) /\ "profile_badges" \in Values(e, "d")
    /\ \A t \in Range(e.tags) : t[1] \in {"a", "e"} => Len(t) >= 2

AudioNote(e) ==                                                                     \* 1808
    LET blossom == {i \in DOMAIN e.tags : e.tags[i][1] = "blossom" /\ Len(e.tags[i]) >= 3}
        last    == e.tags[Max(blossom)] IN
    /\ ValidateEvent(e) /\ Has(e, "url") /\ Has(e, "duration")
    /\ blossom # {} /\ last[2] \in Blobs /\ <<"mime", last[3]>> \in Formats

\* Stored once older events are removed
FollowSet(e) == ValidateEvent(e) /\ Named1(e, {"d"})                                \* 30000
EventPath(e) == ValidateEvent(e) /\ Named1(e, {"d"}) /\ Named1(e, {"f"})            \* 30079
Article(e)   == ValidateEvent(e) /\ e.text \in Markdown /\ First(e, {"d"}) # None   \* 30023

RelayList(e) ==                                                                     \* 10002
    /\ ValidateEvent(e)
    /\ \A t \in Range(e.tags) : t[1] = "r" /\ Len(t) >= 2 /\ <<"r", t[2]>> \in Formats

\* The first list of an author must name something, a later one may be empty.
MuteList(e, first)    == ValidateEvent(e) /\ (first => Named1(e, {"p", "t", "word", "e"})) \* 10000
PinnedNotes(e, first) == ValidateEvent(e) /\ (first => Named1(e, {"e"}))                    \* 10001

AudioMessage(e) ==                                                                  \* 1063
    /\ ValidateEvent(e)
    /\ \A n \in {"blossom_hash", "url", "m", "duration", "transcription_status", "language"} : Spelled(e, n)
    /\ Has(e, "transcription_provider")
    /\ Has(e, "confidence") => Spelled(e, "confidence")

Report(e) ==                                                                        \* 1984
    /\ ValidateEvent(e)
    /\ (\E t \in Range(e.tags) : t[1] = "e" /\ Len(t) >= 3) \/ Has(e, "p")
    /\ \E t \in Range(e.tags) : t[1] \in {"e", "p"} /\ Len(t) >= 3

-----------------------------------------------------------------------------
\* The handler registered for a kind, and the universal one for the others.
Accepts(e) ==
    CASE e.kind = 1 -> Note(e)            [] e.kind = 7 -> Reaction(e)
      [] e.kind = 8 -> BadgeAward(e)      [] e.kind = 77 -> Announcement(e)
      [] e.kind = 443 -> KeyPackage(e)    [] e.kind = 444 -> Welcome(e)
      [] e.kind = 445 -> GroupEvent(e)    [] e.kind = 1059 -> GiftWrap(e)
      [] e.kind = 1063 -> AudioMessage(e) [] e.kind = 1808 -> AudioNote(e)
      [] e.kind = 1984 -> Report(e)       [] e.kind = 9735 -> Zap(e)
      [] e.kind = 9802 -> Highlight(e)    [] e.kind = 10002 -> RelayList(e)
      [] e.kind = 10051 -> KeyRelays(e)   [] e.kind = 11011 -> Recommendation(e)
      [] e.kind = 16630 -> BranchMetadata(e)  [] e.kind = 30000 -> FollowSet(e)
      [] e.kind = 30008 -> ProfileBadges(e)   [] e.kind = 30009 -> BadgeDefinition(e)
      [] e.kind = 30023 -> Article(e)     [] e.kind = 30078 -> AppData(e)
      [] e.kind = 30079 -> EventPath(e)
      [] e.kind = 10000 -> MuteList(e, FALSE) [] e.kind = 10001 -> PinnedNotes(e, FALSE)
      [] OTHER -> ValidateEvent(e)

AcceptsFirst(e) ==
    CASE e.kind = 10000 -> MuteList(e, TRUE) [] e.kind = 10001 -> PinnedNotes(e, TRUE) [] OTHER -> TRUE

\* The event one of these kinds refers to, None when it names none.
Reposts      == {6, 1809, 9372, 9373}
Reference(e) ==
    CASE e.kind \in {6, 1809, 9372} -> First(e, {"e", "p"})
      [] e.kind = 9373 -> First(e, {"e", "p", "q"})

-----------------------------------------------------------------------------
(* Kinds the universal handler treats by their number *)

Universal(k)   == k \notin Handled
Replaceable(k) == k \in 10000..19999 \cup {0, 3}
Ephemeral(k)   == k \in 20000..29999
Addressable(k) == k \in 30000..39999
=============================================================================
