------------------------------ MODULE MCStores ------------------------------
(***************************************************************************)
(* A session of Claude, of JCode and of OpenCode, and two that conversions *)
(* can make: n of Claude and o of OpenCode.                                *)
(***************************************************************************)
EXTENDS Stores, TLC

SomeStores == "c" :> "claude" @@ "j" :> "jcode" @@ "x" :> "opencode"
                @@ "n" :> "claude" @@ "o" :> "opencode"
SomeNamed == {Main(s) : s \in Sessions}
SomeFiles == (UNION {Parts(s) : s \in Sessions}) \cup {Temp(a) : a \in Actors}

\* Temporary files are written where Claude's sessions are.
SomeTargets == [f \in SomeFiles |->
                  IF f[2] = "temp" THEN "claude" ELSE StoreOf[f[1]]]

\* Processes differ in nothing but their names: the second is not started
\* before the first.
InOrder == pc["a2"] # "idle" => pc["a1"] # "idle"
=============================================================================
