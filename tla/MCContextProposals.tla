------------------------ MODULE MCContextProposals ------------------------
(* Instances of ContextProposals for TLC: a layer with a scalar, a list    *)
(* and an object of two keys, a scalar and a list.                         *)
EXTENDS ContextProposals

CONSTANTS p1, p2, name, entries, profile, role, pains, w1, w2

FieldOfCell == [c \in Cells |-> IF c \in {role, pains} THEN profile ELSE c]

(* An edit of the customer, what an app has inferred, a question to the    *)
(* customer, one without content, a guess that need not be relevant and    *)
(* adds to a list and to an object, and an update with a null and a list.  *)
Edit == [action |-> "update", confidence |-> "validated", payload |-> {name},
         sets |-> {name}, wellFormed |-> TRUE, evidenced |-> TRUE,
         expires |-> FALSE, byUser |-> TRUE]
Learning == [action |-> "add", confidence |-> "inferred",
             payload |-> {name, entries}, sets |-> {name, entries},
             wellFormed |-> TRUE, evidenced |-> TRUE, expires |-> TRUE,
             byUser |-> FALSE]
Question == [action |-> "escalate", confidence |-> "speculative",
             payload |-> Fields, sets |-> {name, entries, role},
             wellFormed |-> TRUE, evidenced |-> FALSE, expires |-> FALSE,
             byUser |-> FALSE]
Malformed == [action |-> "add", confidence |-> "inferred", payload |-> {},
              sets |-> {}, wellFormed |-> FALSE, evidenced |-> TRUE,
              expires |-> FALSE, byUser |-> FALSE]
Richer == [action |-> "add", confidence |-> "speculative",
           payload |-> {entries, profile}, sets |-> {entries, role, pains},
           wellFormed |-> TRUE, evidenced |-> TRUE, expires |-> FALSE,
           byUser |-> FALSE]
Cleared == [action |-> "update", confidence |-> "inferred",
            payload |-> {name, entries}, sets |-> {entries},
            wellFormed |-> TRUE, evidenced |-> TRUE, expires |-> FALSE,
            byUser |-> FALSE]

AllDrafts == {Edit, Learning, Question, Malformed, Richer, Cleared}
==============================================================================
