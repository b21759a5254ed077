----------------------------- MODULE EventStore -----------------------------
(***************************************************************************)
(* How events are looked up.  An event is a record                         *)
(*    [id, pubkey, kind, at, tags, text]                                   *)
(* whose tags are sequences of strings and whose text is a member of Texts. *)
(* The store is a set of events: one transaction writes an event with its  *)
(* index keys and one removes them, so the keys are a function of the set. *)
(* A key ends in the time as sixteen hexadecimal digits of its two's       *)
(* complement and the id; here times have Width bits.                      *)
(*                                                                         *)
(* A filter is a record [ids, pubkeys, kinds, tags, since, until, search,  *)
(* limit]: three sequences, a function from tag names to sequences of      *)
(* values, two bounds that may be None, a search that may be None.         *)
(***************************************************************************)
EXTENDS Integers, Sequences, FiniteSets, SequencesExt

CONSTANTS
    None,
    Letters,            \* tag names of one letter: only those have an index
    Includes(_, _),     \* whether a text contains a search string
    Width,              \* bits of a time, 64 in the code
    DefaultLimit        \* defaultMaxLimit, 500 in the code

ASSUME StoreAssumption == Width \in Nat \ {0} /\ DefaultLimit \in Nat \ {0}

AnyFilter == [ids |-> <<>>, pubkeys |-> <<>>, kinds |-> <<>>, tags |-> <<>>,
              since |-> None, until |-> None, search |-> None, limit |-> 0]

-----------------------------------------------------------------------------
(* Sequences *)

\* The members of a finite set in an order of theirs: the n-th has n - 1 before it.
InOrder(S, Before(_, _)) ==
    [n \in 1..Cardinality(S) |-> CHOOSE x \in S : Cardinality({y \in S : Before(y, x)}) = n - 1]

\* The entries of a sequence at some of its positions.
Picked(s, at) == LET order == InOrder(at, <) IN [n \in DOMAIN order |-> s[order[n]]]

Cut(s, n) == SubSeq(s, 1, IF Len(s) < n THEN Len(s) ELSE n)

-----------------------------------------------------------------------------
(* Tags *)

\* Values of the tags with a name; a tag without a value has none.
Values(e, name) == {t[2] : t \in {x \in Range(e.tags) : Len(x) >= 2 /\ x[1] = name}}
Has(e, name) == Values(e, name) # {}

\* getTagValue: that of the first such tag, None without one.
First(e, names) ==
    LET at == {i \in DOMAIN e.tags : Len(e.tags[i]) >= 2 /\ e.tags[i][1] \in names}
    IN IF at = {} THEN None ELSE e.tags[Min(at)][2]

\* matchesFilter: every condition given, each tag name with one of its values.
Matches(e, f) ==
    /\ f.ids # <<>> => e.id \in Range(f.ids)
    /\ f.kinds # <<>> => e.kind \in Range(f.kinds)
    /\ f.pubkeys # <<>> => e.pubkey \in Range(f.pubkeys)
    /\ f.since # None => e.at >= f.since
    /\ f.until # None => e.at <= f.until
    /\ \A n \in DOMAIN f.tags : Values(e, n) \cap Range(f.tags[n]) # {}
    /\ f.search # None => Includes(e.text, f.search)

-----------------------------------------------------------------------------
(* Indexes *)

Unsigned(t) == t % 2^Width

\* The key of one event after that of another: an iterator in reverse meets
\* it earlier.
After(a, b) == \/ Unsigned(a.at) > Unsigned(b.at)
               \/ Unsigned(a.at) = Unsigned(b.at) /\ a.id > b.id

\* The events whose keys have a prefix.
Under(evt, p) ==
    CASE p.index = "author" -> {e \in evt : e.pubkey = p.value}
      [] p.index = "kind"   -> {e \in evt : e.kind = p.value}
      [] p.index = "tag"    -> {e \in evt : p.value \in Values(e, p.name)}
      [] p.index = "time"   -> evt

\* seekBefore and seekEnd
SeekMut(evt, until) ==
    IF until = None THEN evt ELSE {e \in evt : Unsigned(e.at) < Unsigned(until)}
Seek(evt, until) ==
    IF until = None THEN evt ELSE {e \in evt : Unsigned(e.at) <= Unsigned(until)}

\* The scan of a prefix ends at the first key before the bound.
Fresh(s, since) ==
    LET old == {i \in DOMAIN s : s[i].at < since}
    IN IF since = None THEN s ELSE IF old = {} THEN s ELSE SubSeq(s, 1, Min(old) - 1)

Scan(evt, p, f) ==
    LET s == Fresh(InOrder(Seek(Under(evt, p), f.until), After), f.since)
    IN Picked(s, {i \in DOMAIN s : Matches(s[i], f)})

Limit(f) == IF f.limit <= 0 THEN DefaultLimit ELSE f.limit

\* What several prefixes yield, each event once, newest first.  The sort of the
\* code keeps the order of equal times for a dozen events or fewer.
Merged(ss) ==
    LET all  == UNION {{i} \X DOMAIN ss[i] : i \in DOMAIN ss}
        At(x) == ss[x[1]][x[2]]
        Earlier(x, y) == x[1] < y[1] \/ (x[1] = y[1] /\ x[2] < y[2])
        once == {x \in all : \A y \in all : Earlier(y, x) => At(y) # At(x)}
        Ahead(x, y) == At(x).at > At(y).at \/ (At(x).at = At(y).at /\ Earlier(x, y))
        order == InOrder(once, Ahead)
    IN [n \in DOMAIN order |-> At(order[n])]

\* collectFromPrefixes
Collect(evt, ps, f) ==
    IF Len(ps) = 1 THEN Cut(Scan(evt, ps[1], f), Limit(f))
    ELSE Cut(Merged([i \in DOMAIN ps |-> Scan(evt, ps[i], f)]), Limit(f))

-----------------------------------------------------------------------------
(* QueryEvents: the answers it may give *)

KeyRanges(index, values) == [i \in DOMAIN values |-> [index |-> index, value |-> values[i]]]
TagRanges(name, values) ==
    [i \in DOMAIN values |-> [index |-> "tag", name |-> name, value |-> values[i]]]

\* In the order of the filter, whatever their times.
ByIDs(evt, f) ==
    LET Hits(i) == {e \in evt : e.id = f.ids[i] /\ Matches(e, f)}
        order == InOrder({i \in DOMAIN f.ids : Hits(i) # {}}, <)
    IN Cut([n \in DOMAIN order |-> CHOOSE e \in Hits(order[n]) : TRUE], Limit(f))

\* A tag name without an index: the events are scanned by kind, author or time.
ByScan(evt, f) ==
    Collect(evt, IF f.kinds # <<>> THEN KeyRanges("kind", f.kinds)
                 ELSE IF f.pubkeys # <<>> THEN KeyRanges("author", f.pubkeys)
                 ELSE <<[index |-> "time"]>>, f)

\* One tag name leads, whichever the map yields first.
ByTags(evt, f) == {Collect(evt, TagRanges(n, f.tags[n]), f) : n \in DOMAIN f.tags}

QueryEvents(evt, f) ==
    IF f.ids # <<>> THEN {ByIDs(evt, f)}
    ELSE IF DOMAIN f.tags # {} THEN
        IF DOMAIN f.tags \subseteq Letters THEN ByTags(evt, f) ELSE {ByScan(evt, f)}
    ELSE {Collect(evt, IF f.pubkeys # <<>> THEN KeyRanges("author", f.pubkeys)
                       ELSE IF f.kinds # <<>> THEN KeyRanges("kind", f.kinds)
                       ELSE <<[index |-> "time"]>>, f)}

-----------------------------------------------------------------------------
(* What a filter asks for: the newest of the matching events, newest first, *)
(* up to the limit.                                                         *)
Newest(evt, f, r) ==
    LET found == {e \in evt : Matches(e, f)} IN
    /\ Range(r) \subseteq found /\ IsInjective(r)
    /\ Len(r) = IF Cardinality(found) < Limit(f) THEN Cardinality(found) ELSE Limit(f)
    /\ \A i, j \in DOMAIN r : i < j => r[i].at >= r[j].at
    /\ \A e \in found \ Range(r), i \in DOMAIN r : r[i].at >= e.at

\* The same for a filter that names ids: any of the matching events.
Named(evt, f, r) ==
    LET found == {e \in evt : Matches(e, f)} IN
    /\ Range(r) \subseteq found /\ IsInjective(r)
    /\ Len(r) = IF Cardinality(found) < Limit(f) THEN Cardinality(found) ELSE Limit(f)

Right(evt, f) == \A r \in QueryEvents(evt, f) :
                    IF f.ids = <<>> THEN Newest(evt, f, r) ELSE Named(evt, f, r)
=============================================================================
