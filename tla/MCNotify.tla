------------------------------ MODULE MCNotify ------------------------------
(***************************************************************************)
(* Instances of Notify for TLC: one client that subscribes and one that    *)
(* publishes, or also subscribes when its budget allows.                   *)
(***************************************************************************)
EXTENDS Notify, TLC

CONSTANTS reader, writer, e1, ReaderBudget, WriterBudget

\* One client subscribes, another publishes ...
MCConns   == {reader, writer}
MCSends   == reader :> {"REQ", "COUNT", "CLOSE", "AUTH"} @@ writer :> {"EVENT"}
MCBudget  == reader :> ReaderBudget @@ writer :> WriterBudget
\* ... or one does both.
MCAlone       == {reader}
MCAloneSends  == reader :> {"REQ", "COUNT", "CLOSE", "EVENT", "AUTH"}
MCAloneBudget == reader :> ReaderBudget

MCSymmetry == Permutations(SubIds)
MCFilters == {{e1}}
=============================================================================
