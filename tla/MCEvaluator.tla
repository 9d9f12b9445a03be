---------------------------- MODULE MCEvaluator ----------------------------
(***************************************************************************)
(* Small programs for the evaluator, over one set of clauses.              *)
(***************************************************************************)
EXTENDS Evaluator, TLC

WorkerSymmetry == Permutations(Workers)

MCWhens == {"when", "when a", "when b", "when chain", "when serially",
            "when k1", "when k2", "when k3", "when v1", "when v2", "when v3", "when n"}
MCNonatomically == {"when n"}
MCSubscribes == {"subscribe e"}
MCClauses == {"a", "a1", "a2", "b", "c", "d", "a1 b"} \cup MCWhens \cup MCSubscribes
MCContinues == {<<"a1 b", "a1">>}
MCEvents == {"e"}

MCReacts == [w \in MCWhens \cup MCSubscribes |->
    CASE w \in {"when a", "when serially"} -> {"a1", "a2"}
      [] w = "when b" -> {"b"}
      [] w = "when chain" -> {"a"}
      [] w = "subscribe e" -> {"e"}
      [] OTHER -> {}]

\* No body depends on what the pattern was matched with.
CommandsOf(w) ==
    CASE w = "when a" -> <<SayCmd("b", "none"), SayCmd("c", "none")>>
      [] w \in {"when k1", "when k2", "when k3"} -> <<SayCmd("b", "keep")>>
      [] w = "when serially" -> <<SeriallyCmd, SayCmd("b", "none")>>
      [] w = "when v1" -> <<FreshCmd("v"), SayCmd("when b", "none")>>
      [] w = "when v2" -> <<FreshCmd("v"), SayCmd("b", "none")>>
      [] w = "when v3" -> <<FreshCmd("v"), SayCmd("when v2", "none"),
                            SayCmd("when n", "none")>>
      [] w = "when n" -> <<SayCmd("c", "none")>>
      [] w = "when b" -> <<SayCmd("d", "none")>>
      [] w = "when" -> <<SayCmd("subscribe e", "none"), SayCmd("when chain", "none"),
                         AssertCmd("a")>>
      [] w = "when chain" -> <<SayCmd("b", "none"), NotifyCmd("e"), RetractCmd({"a"}),
                               SayCmd("c", "none")>>
      [] w = "subscribe e" -> <<HoldCmd("q", -1, "b", "none")>>

MCBody == [w \in MCWhens \cup MCSubscribes |->
              [what \in MCClauses \cup MCEvents \cup {NoClause} |-> CommandsOf(w)]]

\* A hold moves from one clause to the next while a When turns either into
\* the same two statements.
MoveProgram == {AssertCmd("when a"),
                HoldCmd("k", 1, "a1", "none"), HoldCmd("k", 2, "a2", "none")}

\* A hold moves over three Whens that say the same, and what they say is kept
\* for a while when its match goes.
KeepProgram == {HoldCmd("k", i, w, "none") :
                   <<i, w>> \in {<<0, "when k1">>, <<1, "when k2">>, <<2, "when k3">>}}

\* A When -serially has two statements to run on.
SeriallyProgram == {AssertCmd("when serially"),
                    HoldCmd("p", -1, "a1", "none"), HoldCmd("q", -1, "a2", "none")}

\* A hold moves between two executions of a When -atomically.  One version
\* says a When, the other what it reacts to.
AtomicallyProgram == {HoldCmd("k", 1, "when v1", "none"), HoldCmd("k", 2, "when v2", "none")}

\* A body of a When -atomically says another one and a When -nonatomically.
NestedProgram == {HoldCmd("k", 2, "when v3", "none")}

\* In all of them the last version of key k is 2.
ChurnPrograms == {MoveProgram, KeepProgram, SeriallyProgram, AtomicallyProgram,
                  NestedProgram}
KeepPrograms == {KeepProgram}

\* A held When says another and a Subscribe:, and asserts what the other one
\* reacts to; that says what the subscription may hold, notifies it, and
\* retracts the statement it runs on.  Both holds may be dropped at any time.
ChainPrograms == {{HoldCmd("p", -1, "when", "none"), HoldCmd("p", -1, NoClause, "none"),
                   HoldCmd("q", -1, NoClause, "none")}}

\* One key moves on and back while the first move is still being cleaned up.
BackPrograms == {{HoldCmd("k", 1, "a1", "none"), HoldCmd("k", 2, "a2", "none"),
                  HoldCmd("k", 3, "a1", "none")}}

\* One key moves to a clause that continues the one it held.
LongerPrograms == {{HoldCmd("k", 1, "a1", "none"), HoldCmd("k", 2, "a1 b", "none")}}

\* A statement is retracted while it is asserted.
RetractPrograms == {{AssertCmd("a1"), RetractCmd({"a1"})}}
=============================================================================
