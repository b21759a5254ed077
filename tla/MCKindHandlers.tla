--------------------------- MODULE MCKindHandlers ---------------------------
(***************************************************************************)
(* Instances of KindHandlers.  Ids and public keys are numbers; the higher *)
(* id has the later key.  A catalog of single events sends every kind well *)
(* formed and malformed after the events it builds on; the races let two   *)
(* connections send versions and removals of the same things.              *)
(***************************************************************************)
EXTENDS KindHandlers

CONSTANTS c1, c2

alice == 901
bob   == 902

E(id, who, kind, at, tags, text) ==
    [id |-> id, pubkey |-> who, kind |-> kind, at |-> at, tags |-> tags, text |-> text]
A(id, kind, at, tags) == E(id, alice, kind, at, tags, "text")
B(id, kind, at, tags) == E(id, bob, kind, at, tags, "text")

MCConns     == {c1, c2}
MCLetters   == {"a", "b", "d", "e", "h", "p", "r", "t"}
MCIncludes(text, search) == <<text, search>> \in {<<"text", "ex">>, <<"+", "+">>}
MCSigned    == Nat \ {99}
MCHandled   == PlainKinds \cup Reposts \cup WipeKinds \cup {5, 1063, 1984, 30023}
MCRegistered == (MCHandled \ {30079}) \cup {30302}
MCWhitelist == MCRegistered \ {11011}
MCFormats   == {<<"type", "issue">>, <<"r", "wss">>, <<"mime", "audio">>} \cup
    ({"blossom_hash", "url", "m", "duration", "transcription_status", "language", "confidence"} \X {"good"})

Voice(hash) == <<<<"blossom_hash", hash>>, <<"url", "good">>, <<"m", "good">>, <<"duration", "good">>,
                 <<"transcription_status", "good">>, <<"language", "good">>, <<"transcription_provider", "x">>>>

-----------------------------------------------------------------------------
(* The catalog: each event on a connection of its own after a profile, a    *)
(* note, a blocked note and the lists of alice.                             *)

note    == A(10, 1, 1, <<>>)
blocked == A(11, 1, 1, <<>>)
Before  == <<note, blocked, A(12, 0, 1, <<>>), A(13, 10000, 1, <<<<"p", bob>>>>)>>

Catalog == {
    A(99, 1, 1, <<>>), A(20, 1, 5, <<>>), A(20, 11011, 1, <<>>), A(20, 2, 1, <<>>), A(20, 40, 1, <<>>),
    A(20, 0, 1, <<>>), A(20, 3, 2, <<>>),
    A(20, 5, 2, <<<<"e", 10>>, <<"e", 77>>>>), B(20, 5, 2, <<<<"e", 10>>, <<"p", bob>>>>),
    B(20, 6, 2, <<<<"e", 10>>>>), B(20, 6, 2, <<<<"e", 77>>>>), B(20, 6, 2, <<>>),
    B(20, 1809, 2, <<<<"p", alice>>, <<"e", 10>>>>), B(20, 9372, 2, <<<<"e", 10>>>>),
    B(20, 9373, 2, <<<<"q", 10>>>>), B(20, 9373, 2, <<>>),
    E(20, bob, 7, 2, <<>>, "+"), B(20, 7, 2, <<>>),
    B(20, 8, 2, <<<<"a", "x">>, <<"p", alice>>>>), B(20, 8, 2, <<<<"a", "x">>>>),
    B(20, 77, 2, <<<<"r", "repo">>, <<"type", "issue">>>>), B(20, 77, 2, <<<<"r", "repo">>, <<"type", "x">>>>),
    B(20, 443, 2, <<<<"mls_protocol_version", "1">>, <<"mls_ciphersuite", "1">>, <<"encoding", "1">>>>),
    B(20, 443, 2, <<<<"mls_ciphersuite", "1">>, <<"encoding", "1">>>>),
    B(99, 444, 2, <<<<"e", 10>>, <<"relays", "x">>, <<"encoding", "1">>>>), B(20, 444, 2, <<>>),
    B(20, 445, 2, <<<<"h", "g">>>>), B(20, 445, 2, <<>>),
    B(20, 1059, 2, <<<<"p", alice>>>>), E(20, bob, 1059, 2, <<<<"p", alice>>>>, "empty"),
    A(20, 1063, 2, Voice("good")), A(20, 1063, 2, Voice("bad")),
    A(20, 1808, 2, <<<<"url", "x">>, <<"duration", "1">>, <<"blossom", "blob", "audio">>>>),
    A(20, 1808, 2, <<<<"url", "x">>, <<"duration", "1">>, <<"blossom", "lost", "audio">>>>),
    A(20, 1808, 2, <<<<"url", "x">>, <<"duration", "1">>, <<"blossom", "lost", "audio">>, <<"blossom", "blob", "audio">>>>),
    B(20, 1984, 2, <<<<"p", alice, "spam">>>>), B(20, 1984, 2, <<<<"e", 11, "spam">>, <<"p", alice>>>>),
    B(20, 1984, 2, <<<<"e", 77, "spam">>>>), B(20, 1984, 2, <<<<"p", alice>>>>),
    B(20, 9735, 2, <<>>), B(20, 9802, 2, <<<<"context", "x">>>>), B(20, 9802, 2, <<>>),
    A(20, 10000, 2, <<>>), A(20, 10001, 2, <<<<"e", 10>>>>), A(20, 10001, 2, <<>>),
    A(20, 10002, 2, <<<<"r", "wss">>>>), A(20, 10002, 2, <<<<"r", "x">>>>),
    A(20, 10051, 2, <<<<"relay", "x">>>>), A(20, 10051, 2, <<>>),
    A(20, 16630, 2, <<<<"b", "main">>, <<"r", "repo">>>>), A(20, 16630, 2, <<<<"b", "main">>>>),
    A(20, 30000, 2, <<<<"d", "x">>>>), A(20, 30008, 2, <<<<"d", "profile_badges">>, <<"a", "x">>>>),
    A(20, 30008, 2, <<<<"d", "x">>>>), A(20, 30009, 2, <<<<"d", "x">>>>),
    A(20, 30023, 2, <<>>), A(20, 30078, 2, <<>>), A(20, 30079, 2, <<<<"d", "x">>, <<"f", "x">>>>),
    A(20, 30302, 2, <<>>), A(20, 20001, 2, <<>>)}

-----------------------------------------------------------------------------
(* The races                                                                *)

List(id, at, d) == A(id, 30302, at, <<<<"d", d>>>>)
Essay(id, at, d) == E(id, alice, 30023, at, <<<<"d", d>>>>, "clean")

Races == {
    \* two versions of a profile and its first one again
    <<<<A(1, 0, 1, <<>>), A(2, 0, 2, <<>>)>>, <<A(3, 0, 2, <<>>), A(1, 0, 1, <<>>)>>>>,
    \* versions the universal handler compares, two of them of one time
    <<<<List(1, 1, "x"), List(3, 3, "x")>>, <<List(2, 3, "x"), List(4, 2, "x")>>>>,
    <<<<List(1, 1, "x"), List(2, 2, "y")>>, <<List(3, 2, "x"), List(4, 3, "x"), List(1, 1, "x")>>>>,
    \* audio messages of one file and of another
    <<<<A(1, 1063, 1, Voice("good")), A(2, 1063, 2, Voice("good"))>>, <<A(3, 1063, 2, Voice("good"))>>>>,
    \* an article and its next version, and a list of that name
    <<<<Essay(1, 1, "x"), Essay(2, 2, "x")>>, <<List(3, 1, "x"), Essay(4, 1, "x")>>>>,
    \* versions of one list in turn, and another author's of the same name
    <<<<List(1, 1, "x"), List(2, 2, "x"), List(3, 1, "x")>>,
      <<B(4, 30302, 2, <<<<"d", "x">>>>), E(5, bob, 30023, 2, <<<<"d", "x">>>>, "clean")>>>>,
    \* a note is removed while it is sent again, and others' removals
    <<<<note, A(11, 5, 2, <<<<"e", 10>>>>)>>, <<note, B(12, 5, 2, <<<<"e", 10>>>>)>>>>,
    <<<<note, A(11, 5, 2, <<<<"e", 10>>, <<"e", 13>>>>), note>>, <<A(13, 1, 2, <<>>), B(12, 6, 2, <<<<"e", 13>>>>)>>>>,
    \* preferences, one connection
    <<<<A(1, 10010, 1, <<>>), A(2, 10010, 2, <<>>), A(3, 10010, 3, <<>>)>>, <<note, B(4, 10010, 1, <<>>)>>>>,
    \* reports on a note that is removed
    <<<<note, A(11, 5, 2, <<<<"e", 10>>>>)>>, <<B(12, 1984, 2, <<<<"e", 10, "spam">>>>), B(13, 1984, 2, <<<<"e", 10, "spam">>>>)>>>>}

Script(s) == [c \in MCConns |-> IF c = c1 THEN s[1] ELSE s[2]]
MCScripts == {Script(<<Before \o <<e>>, <<>>>>) : e \in Catalog} \cup {Script(r) : r \in Races}

\* They are what the theorems of KindHandlersProofs ask for.
ASSUME MCScriptsAssumption == \A s \in MCScripts : Regular(s) /\ Orderly(s) /\ Few(s)

\* Two preferences of one user at the same time
PrefsScripts == {Script(<<<<A(1, 10010, 1, <<>>)>>, <<A(2, 10010, 2, <<>>)>>>>)}

\* Two reports on one note at the same time
ReportScripts == {Script(<<<<note, B(12, 1984, 2, <<<<"e", 10, "spam">>>>)>>,
                           <<note, A(13, 1984, 2, <<<<"e", 10, "spam">>>>)>>>>)}

\* A profile and an older one sent again
ReplayScripts == {Script(<<<<A(1, 0, 1, <<>>), A(2, 0, 2, <<>>), A(1, 0, 1, <<>>)>>, <<>>>>)}

\* A note from before 1970
AncientScripts == {Script(<<<<A(1, 1, -1, <<>>), A(2, 1, 1, <<>>)>>, <<>>>>)}

FoundScripts == PrefsScripts \cup ReportScripts \cup ReplayScripts \cup AncientScripts

MCFilters ==
    LET F == AnyFilter IN {
    F, [F EXCEPT !.limit = 1], [F EXCEPT !.since = 1, !.until = 2],
    [F EXCEPT !.kinds = <<30302, 1>>, !.until = 2, !.limit = 2],
    [F EXCEPT !.pubkeys = <<alice, bob>>, !.since = 2],
    [F EXCEPT !.ids = <<3, 10, 1>>, !.kinds = <<1, 0, 30302>>],
    [F EXCEPT !.tags = [n \in {"d"} |-> <<"x", "y">>], !.limit = 2],
    [F EXCEPT !.tags = [n \in {"d", "e"} |-> IF n = "d" THEN <<"x">> ELSE <<10>>]],
    [F EXCEPT !.tags = [n \in {"type"} |-> <<"issue">>], !.kinds = <<77>>],
    [F EXCEPT !.search = "ex", !.until = 1]}
=============================================================================
