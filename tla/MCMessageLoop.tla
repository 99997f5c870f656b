---------------------------- MODULE MCMessageLoop ----------------------------
EXTENDS MessageLoop

\* What the tasks do, which is also their names, but for the last ones.
TaskDoes ==
  [nest |-> [op |-> "run", loop |-> "allowing"],
   nestDefault |-> [op |-> "run", loop |-> "default"],
   quitNested |-> [op |-> "quit", loop |-> "allowing"],
   quitMain |-> [op |-> "quit", loop |-> "main"],
   quitWhenIdle |-> [op |-> "quitWhenIdle", loop |-> "main"],
   postLater |-> [op |-> "post", task |-> "later"],
   cancelLate |-> [op |-> "cancel", task |-> "late"],
   plain |-> [op |-> "none"],
   late |-> [op |-> "none"],
   later |-> [op |-> "none"],
   apart |-> [op |-> "none"],
   apartLate |-> [op |-> "none"]]

Tasks == DOMAIN TaskDoes
Delays == [x \in Tasks |-> IF x \in {"late", "later", "apartLate"} THEN 1 ELSE 0]
Apart == {"apart", "apartLate"}
Posters == [x \in Tasks |->
              IF x = "later" THEN "loop"
              ELSE IF x \in {"nest", "nestDefault", "apart", "late", "postLater"}
              THEN "p" ELSE "q"]

\* Tasks that are posted together.
Groups == {{"nest", "apart", "quitNested"},
           {"nest", "quitMain"},
           {"nest", "apartLate"},
           {"nestDefault", "late"},
           {"late", "cancelLate"},
           {"postLater", "later", "quitWhenIdle"},
           {"postLater", "later", "late"}}

\* Two WaitMany that name the events in different orders.
Arrays == {<<1, 2>>, <<2, 1>>}
==============================================================================
