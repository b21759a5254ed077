-------------------------------- MODULE MCDags --------------------------------
(***************************************************************************)
(* Instances of Dags: two DAGs that share a subtree, one with a video that *)
(* is not permitted, uploaded whole and in part by two keys.               *)
(***************************************************************************)
EXTENDS Dags

CONSTANTS s1, s2, d1

\* r and q share the directory m with the file n; v has the video w.
MCLinks == [l \in {"r", "q", "m", "n", "v", "w"} |->
    CASE l = "r" -> {"m"} [] l = "q" -> {"m"} [] l = "m" -> {"n"} [] l = "v" -> {"w"} [] OTHER -> {}]
MCKeys == {"alice", "bob", "carol"}
MCName == [l \in DOMAIN MCLinks |-> l]
MCUploads == {s1, s2}
MCDownloads == {d1}
MCAllowed == ({"r", "q", "v"} \X {"alice", "bob"}) \ {<<"q", "bob">>}

Up(root, key, packets, final) == [root |-> root, key |-> key, packets |-> packets, final |-> final]
Plan(a, b, d, m) ==
    [up |-> [s \in MCUploads |-> IF s = s1 THEN a ELSE b], down |-> [x \in MCDownloads |-> d], moves |-> m]
Get(root, wanted, how) == [root |-> root, leaves |-> wanted, how |-> how]

Whole(key)   == Up("r", key, <<{"r", "m", "n"}>>, TRUE)
Parts(key)   == Up("r", key, <<{"r"}, {"m", "n"}>>, TRUE)
Short(key)   == Up("r", key, <<{"r"}, {"m"}>>, FALSE)
Other(key)   == Up("q", key, <<{"q"}>>, TRUE)
Video(key)   == Up("v", key, <<{"v", "w"}>>, TRUE)
Later(key)   == Up("v", key, <<{"v"}, {"w"}>>, TRUE)

Some  == {<<"claim", "r", "bob">>, <<"release", "r", "alice">>}
Full  == Get("r", {}, "all")
Leaf  == Get("r", {"n"}, "hashes")
Pair  == Get("r", {"m", "n"}, "labels")
Wrong == Get("r", {"q"}, "hashes")

MCPlans ==
    {Plan(Whole("alice"), Whole("bob"), d, Some) : d \in {Full, Pair, Wrong}}
    \cup {Plan(Whole("alice"), Short("bob"), d, {}) : d \in {Leaf, Pair}}
    \cup {Plan(Parts("alice"), Other(k), Full, {}) : k \in {"alice", "bob"}}
    \cup {Plan(Parts("alice"), Parts("alice"), Leaf, {}), Plan(Short("alice"), Parts("bob"), Full, {}),
          Plan(Short("alice"), Short("bob"), Pair, Some)}
    \cup {Plan(Parts("alice"), Other("alice"), Get("q", {"n"}, "hashes"), {<<"claim", "q", "carol">>}),
          Plan(Short("bob"), Other("alice"), Get("q", {"n"}, "labels"), {}),
          Plan(Video("alice"), Video("bob"), Get("v", {}, "all"), {}),
          Plan(Later("alice"), Video("bob"), Get("v", {"w"}, "hashes"), {<<"claim", "v", "bob">>})}

\* Two keys upload the same DAG, and one does not finish.
TwicePlans == {Plan(Whole("alice"), Short("bob"), Get("r", {}, "all"), {})}

\* A video in one packet.
VideoPlans == {Plan(Video("alice"), Other("bob"), Get("v", {}, "all"), {})}

FoundPlans == TwicePlans \cup VideoPlans
=============================================================================
