------------------------------ MODULE MCPicker ------------------------------
(***************************************************************************)
(* Small lists.  `new` is the session that a conversion, a branch, an import *)
(* or another program can make.  With three sessions one workspace can have *)
(* two of them; with two there is room for more searches under way.         *)
(***************************************************************************)
EXTENDS Picker, TLC

CONSTANTS a, b, new, f1, f2, p1, p2

ThreeSessions == <<new, a, b>>
Workspace3 == a :> f1 @@ b :> f2 @@ new :> f1
Agent3 == a :> p1 @@ b :> p2 @@ new :> p2

TwoSessions == <<new, a>>
Workspace2 == a :> f1 @@ new :> f1
Agent2 == a :> p1 @@ new :> p2

Writable == <<p1, p2>>
Found == [q \in Queries |->
            IF q = "" THEN Sessions ELSE Sessions \ {new}]
=============================================================================
