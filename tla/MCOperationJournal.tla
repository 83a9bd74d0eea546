-------------------------- MODULE MCOperationJournal ------------------------
(* A pane's creation and its close, a report's two exclusive terminal
   operations, and an apply publication. *)
EXTENDS OperationJournal

MCOperation == {"create", "close", "accept", "reject", "publish"}
MCApplyOperation == {"publish"}
MCPublication == {"publish"}
MCRequires == [o \in MCOperation |-> IF o = "close" THEN {"create"} ELSE {}]
MCExcludes == [o \in MCOperation |->
    CASE o = "accept" -> {"reject"}
      [] o = "reject" -> {"accept"}
      [] OTHER -> {}]

\* A journal of three operations is not continued.
ShortJournal == Len(entries) <= 3
=============================================================================
