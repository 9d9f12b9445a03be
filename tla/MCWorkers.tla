----------------------------- MODULE MCWorkers -----------------------------
(***************************************************************************)
(* The boot program pushes an item that pushes another and then blocks for *)
(* ever, and one whose body may be killed; the last one waits for I/O.     *)
(***************************************************************************)
EXTENDS Workers

MCItems == {"boot", "forever", "killed", "io"}
MCPushes == [x \in MCItems |-> CASE x = "boot" -> <<"forever", "killed">>
                                 [] x = "forever" -> <<"io">>
                                 [] OTHER -> <<>>]
MCEnds == [x \in MCItems |-> CASE x = "boot" -> "returns"
                               [] x = "forever" -> "never"
                               [] x = "killed" -> "killable"
                               [] x = "io" -> "waits"]
=============================================================================
