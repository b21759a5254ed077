------------------------------ MODULE RepoRules ------------------------------
(***************************************************************************)
(* Repositories on the relay.  A permission event (kind 31415) names a     *)
(* repository in its r tag, its collaborators and their roles in p tags,   *)
(* who may do what else in other tags, and in wot_file the DAG of a social *)
(* graph.  Here is what such an event must be like, who may publish one,   *)
(* and what it allows others to write and read on a relay that is          *)
(* otherwise by invitation (mode invite-only, read and write by            *)
(* allowed_users).  None stands for a missing tag and for an empty value.  *)
(***************************************************************************)
EXTENDS EventStore

CONSTANTS
    Repo,               \* repository identifiers: id -> [form, owner, dtag, name]
    Org,                \* organisation addresses: address -> [owner, dtag]
    Clone,              \* clone URLs: URL -> [id, author, name]
    RelayURLs,
    Topic,              \* paths in I, i and d tags: path -> what it is about
    BlacklistPaths,     \* paths in d tags: path -> <<repository, key>>
    Files,              \* DAGs: root -> [r, wot, owner, pr, nodes, follows]
    Invited,            \* keys with global read and write access
    OverrideKinds       \* RepoAccessOverrideKinds

\* Nothing is missing in the root of a DAG, in a role, in the key that a
\* blacklist path ends in.
ASSUME RulesAssumption ==
    /\ None \notin DOMAIN Files \cup {"owner", "maintainer", "triage"}
    /\ \A d \in DOMAIN BlacklistPaths : BlacklistPaths[d][2] # None

MaxAllowedHops == 5
DefaultMaxHops == 3
Levels == {"maintainer", "write", "triage", "read", "encrypted-write"}

-----------------------------------------------------------------------------
(* What a permission event must be like *)

TagsNamed(e, n) == Picked(e.tags, {i \in DOMAIN e.tags : Len(e.tags[i]) >= 2 /\ e.tags[i][1] = n})
FirstTag(e, n)  == First(e, {n})
LastTag(e, n)   == LET s == TagsNamed(e, n) IN IF s = <<>> THEN None ELSE s[Len(s)][2]

\* The tags are read one after the other, so that the last of a name counts,
\* for d the first, and for r the last that has a value and nothing else.
LastR(e) == LET s == Picked(e.tags, {i \in DOMAIN e.tags : Len(e.tags[i]) = 2 /\ e.tags[i][1] = "r"})
            IN IF s = <<>> THEN None ELSE s[Len(s)][2]

CloneAgrees(e, url) ==
    LET a == LastTag(e, "a") IN
    url \in DOMAIN Clone /\ Clone[url] = [id     |-> LastR(e),
                                          name   |-> LastTag(e, "n"),
                                          author |-> IF a = None THEN e.pubkey ELSE a]

ValidTags(e) ==
    /\ LastR(e) \in DOMAIN Repo /\ FirstTag(e, "d") = LastR(e)
    /\ LastTag(e, "n") # None
    /\ Repo[LastR(e)].form # "guid" => Repo[LastR(e)].name = LastTag(e, "n")
    /\ LastTag(e, "a") \in DOMAIN Org \cup {None}
    /\ CloneAgrees(e, LastTag(e, "clone"))
    /\ LastTag(e, "relay") \in RelayURLs
    /\ LastTag(e, "visibility") \in {None, "public", "private"}
    /\ \E t \in Range(e.tags) : t[1] = "p" /\ Len(t) >= 3
    /\ \A t \in Range(e.tags) : t[1] = "p" /\ Len(t) >= 3 => t[3] \in Levels

\* parseOwnership: an organisation by its a tag, or else what the identifier
\* says; a GUID says nothing and the owner is who signs.
Ownership(e) ==
    LET a == FirstTag(e, "a") r == FirstTag(e, "r") IN
    IF a \in DOMAIN Org THEN [org |-> TRUE, owner |-> Org[a].owner, dtag |-> Org[a].dtag]
    ELSE IF r \notin DOMAIN Repo THEN [org |-> FALSE, owner |-> None, dtag |-> None]
    ELSE IF Repo[r].form = "guid" THEN [org |-> FALSE, owner |-> e.pubkey, dtag |-> None]
    ELSE [org |-> Repo[r].form = "org", owner |-> Repo[r].owner, dtag |-> Repo[r].dtag]

Found(evt, f) == {e \in evt : Matches(e, f)}
Tagged(f, n, v) == [f EXCEPT !.tags = [m \in DOMAIN f.tags \cup {n} |-> IF m = n THEN <<v>> ELSE f.tags[m]]]
OfKind(k)  == [AnyFilter EXCEPT !.kinds = <<k>>]
By(f, who) == [f EXCEPT !.pubkeys = <<who>>]

\* isEventDeleted
Revoked(evt, e) == Found(evt, Tagged(By(OfKind(5), e.pubkey), "e", e.id)) # {}

\* isVerifiedOrgMember: the owner, and whoever accepted an invitation of theirs.
Member(evt, who, org) ==
    \/ who = org.owner
    \/ \E a \in DOMAIN Org : Org[a] = [owner |-> org.owner, dtag |-> org.dtag] /\
       \E i \in Found(evt, Tagged(Tagged(By(OfKind(39505), org.owner), "a", a), "p", who)) :
          /\ ~Revoked(evt, i)
          /\ \E x \in Found(evt, Tagged(By(OfKind(39506), who), "e", i.id)) :
                FirstTag(x, "status") = "accepted" /\ ~Revoked(evt, x)

Permissions(evt, r) == QueryEvents(evt, Tagged(OfKind(31415), "r", r))

\* verifyPublisherPermission: the first event of an organisation's repository,
\* and the one that gives it to the organisation, may be any member's.
MayPublish(evt, e, existing) ==
    LET o == Ownership(e)
        migrates == FirstTag(e, "a") # None /\ \A i \in DOMAIN existing : FirstTag(existing[i], "a") = None
    IN IF o.org /\ (existing = <<>> \/ migrates) THEN Member(evt, e.pubkey, o)
       ELSE e.pubkey = o.owner

\* The wot_file of an event: a stored social graph of its owner, uploaded by
\* the owner as far as the first ownership record tells.
Bound(e, w, uploader) == Files[w].wot /\ Files[w].owner = Ownership(e).owner /\ uploader = Ownership(e).owner

-----------------------------------------------------------------------------
(* Social graphs *)

\* ComputeAllDistances: who is at most d follows away from the owner.
Followed(w, who) == {f[2] : f \in {x \in Files[w].follows : x[1] \in who}}
Reach(w) ==
    LET f[d \in 0..MaxAllowedHops] ==
            IF d = 0 THEN {Files[w].owner} \cap Files[w].nodes ELSE f[d - 1] \cup Followed(w, f[d - 1])
    IN f

\* IsWithinHops; known are the roots that are cached or can be loaded.
WithinHops(known, w, who, hops) ==
    w \in known /\ Files[w].wot /\ (who = Files[w].owner \/ who \in Reach(w)[hops])

-----------------------------------------------------------------------------
(* What a permission event p allows *)

Private(p) == FirstTag(p, "visibility") = "private"

\* The positions in a tag of roles it gives to a key.
Gives(t, who, roles) == {i \in 3..Len(t) : t[1] = "p" /\ t[2] = who /\ t[i] \in roles}

DagRoles   == {"maintainer", "write"}
EventRoles == DagRoles \cup {"triage", "encrypted-write"}

HasRole(p, who, roles) == p.pubkey = who \/ \E t \in Range(p.tags) : Gives(t, who, roles) # {}
Reader(p, who)         == p.pubkey = who \/ who \in Values(p, "p")

\* getUserRoleFromPermissionEvent: the first role that counts.
RoleOf(p, who) ==
    LET counts == {"maintainer", "triage", "write", "read"}
        at == {i \in DOMAIN p.tags : Gives(p.tags[i], who, counts) # {}}
        t  == p.tags[Min(at)]
    IN IF p.pubkey = who THEN "owner" ELSE IF at = {} THEN None ELSE t[Min(Gives(t, who, counts))]

Hops(p) == LET h == FirstTag(p, "wot_hops") IN IF h \in 1..MaxAllowedHops THEN h ELSE DefaultMaxHops

\* A level of the settings of a repository: who may interact with it.
LevelAllows(p, who, level, known) ==
    CASE level = "everyone" -> ~Private(p)
      [] level = "wot" -> ~Private(p) /\ FirstTag(p, "wot_file") # None
                          /\ WithinHops(known, FirstTag(p, "wot_file"), who, Hops(p))
      [] level = "maintainers_triage" -> RoleOf(p, who) \in {"owner", "maintainer", "triage"}
      [] level = "maintainers" -> RoleOf(p, who) \in {"owner", "maintainer"}
      [] OTHER -> FALSE

About(e, names) == LET p == First(e, names) IN IF p \in DOMAIN Topic THEN Topic[p] ELSE None

\* interactionPermissionTagForEvent
InteractionTag(e) ==
    CASE e.kind = 74 -> "pr_permissions"
      [] e.kind = 75 -> "pr_comment_permissions"
      [] e.kind = 1111 ->
            LET t == IF FirstTag(e, "I") # None THEN About(e, {"I"}) ELSE About(e, {"i"})
            IN IF t = "issues" THEN "issue_comment_permissions"
               ELSE IF t = "prs" THEN "pr_comment_permissions" ELSE None
      [] e.kind = 30078 ->
            LET t == About(e, {"d"})
            IN IF t = "issues" THEN "issue_permissions" ELSE IF t = "prs" THEN "pr_permissions"
               ELSE IF t = "kanban" THEN "kanban_permissions" ELSE None
      [] OTHER -> None

NeedsDag(e) == e.kind \in {73, 74} \/ \E n \in {"bundle", "archive", "dag_root"} : Has(e, n)

-----------------------------------------------------------------------------
(* Access to events *)

\* The permission event of a repository: the newest, of two the higher id.
NewerMut(a, b) == a.at > b.at \/ (a.at = b.at /\ a.id < b.id)
Newer(a, b) == a.at > b.at \/ (a.at = b.at /\ a.id > b.id)
Latest(s)   == InOrder(Range(s), Newer)[1]

\* canWriteRepositoryEvent takes the first answer of a query for one.
Authority(evt, e, blocked) ==
    LET r == FirstTag(e, "r") IN
    IF e.kind \in OverrideKinds /\ r # None /\ <<r, e.pubkey>> \notin blocked
    THEN {s[1] : s \in QueryEvents(evt, [Tagged(OfKind(31415), "r", r) EXCEPT !.limit = 1]) \ {<<>>}}
    ELSE {}

Level(p, e) == IF InteractionTag(e) = None THEN None ELSE FirstTag(p, InteractionTag(e))
ByRole(p, e) == HasRole(p, e.pubkey, IF NeedsDag(e) THEN DagRoles ELSE EventRoles)

MayWriteEvent(evt, e, blocked, known) ==
    \E p \in Authority(evt, e, blocked) : ByRole(p, e) \/ LevelAllows(p, e.pubkey, Level(p, e), known)

\* The social graphs that decision looks up, which loads them into the cache.
Consults(evt, e, blocked) ==
    {FirstTag(p, "wot_file") : p \in {x \in Authority(evt, e, blocked) :
        e.pubkey \notin Invited /\ ~ByRole(x, e) /\ Level(x, e) = "wot" /\ ~Private(x)}} \ {None}

CanWriteEvent(evt, e, blocked, known) == e.pubkey \in Invited \/ MayWriteEvent(evt, e, blocked, known)

\* A permission event is its own authority when it is read.
CanReadEvent(evt, e, who) ==
    \/ who \in Invited
    \/ /\ e.kind \in OverrideKinds /\ FirstTag(e, "r") # None
       /\ \E s \in IF e.kind = 31415 THEN {<<e>>} ELSE Permissions(evt, FirstTag(e, "r")) :
             s # <<>> /\ (~Private(Latest(s)) \/ Reader(Latest(s), who))

-----------------------------------------------------------------------------
(* Access to DAGs *)

Collaborates(evt, who) ==
    LET all == Found(evt, OfKind(31415)) IN
    \/ \E p \in all : Reader(p, who)
    \/ \E p \in all : ~Private(p) /\ FirstTag(p, "pr_permissions") \in {"everyone", "wot"}

\* canWriteDagWithRepoContext
MayWriteDag(p, w, who, known) ==
    IF Files[w].wot THEN who = Files[w].owner /\ who = p.pubkey
    ELSE IF Files[w].pr THEN LevelAllows(p, who, FirstTag(p, "pr_permissions"), known)
    ELSE HasRole(p, who, DagRoles)

CanWriteDag(evt, w, who, blocked, known) ==
    \/ who \in Invited
    \/ /\ Files[w].r # None /\ <<Files[w].r, who>> \notin blocked
       /\ \E s \in Permissions(evt, Files[w].r) : s # <<>> /\ MayWriteDag(Latest(s), w, who, known)
    \/ /\ Files[w].r = None /\ (Files[w].wot => who = Files[w].owner)
       /\ Collaborates(evt, who)

\* resolveDagRepoContext: the repository the DAG itself names, for a social
\* graph only if that is bound to it, or else the one of an event that refers
\* to the DAG, tried in this order.
ReferencesMut == <<<<31415, "wot_file">>, <<73, "bundle">>, <<74, "dag_root">>>>
References == <<<<31415, "wot_file">>, <<73, "bundle">>, <<73, "archive">>, <<74, "dag_root">>>>

RepoOfDag(evt, w) ==
    LET pointed == {Latest(s) : s \in {x \in Permissions(evt, Files[w].r) : Files[w].r # None /\ x # <<>>}}
        named(n) == {Latest(s) : s \in (UNION {Permissions(evt, FirstTag(q[1], "r")) :
                        q \in QueryEvents(evt, [Tagged(OfKind(References[n][1]), References[n][2], w)
                                                 EXCEPT !.limit = 1]) \ {<<>>}}) \ {<<>>}}
        some == {n \in DOMAIN References : named(n) # {}}
    IN IF \E p \in pointed : Files[w].wot => FirstTag(p, "wot_file") = w THEN pointed
       ELSE IF some = {} THEN {} ELSE named(Min(some))

CanReadDag(evt, w, who, blocked) ==
    \/ who \in Invited
    \/ \E p \in RepoOfDag(evt, w) :
          /\ <<FirstTag(p, "r"), who>> \notin blocked
          /\ ~Private(p) \/ (who # None /\ Reader(p, who))

-----------------------------------------------------------------------------
\* The blacklist is built at the start, from the app data on blacklist paths in
\* the order the store yields them: the newest first, so that the oldest decides.
Blacklist(evt) ==
    {BlacklistPaths[d] : d \in {x \in DOMAIN BlacklistPaths :
        \E s \in QueryEvents(evt, OfKind(30078)) :
            LET at == {i \in DOMAIN s : FirstTag(s[i], "d") = x}
            IN at # {} /\ s[Max(at)].text \in {"true", "1"}}}

\* The owner of a resource for a cascade (kind 72): there must be one permission
\* event, an a tag names an organisation, and otherwise the owner is who signed.
ResolvedOwner(p) ==
    LET at == {i \in DOMAIN p.tags : Len(p.tags[i]) >= 2 /\ p.tags[i][1] = "a" /\ p.tags[i][2] \in DOMAIN Org}
    IN IF at = {} THEN p.pubkey ELSE Org[p.tags[Min(at)][2]].owner
=============================================================================
