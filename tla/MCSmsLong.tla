------------------------------ MODULE MCSmsLong ------------------------------
\* Texts that are empty, as long as one part, one character longer, as long as
\* two and three parts, one character beyond, of more parts than the queue has
\* room for; and, beyond the contract, of so many that their number wraps to
\* none, to one and to two. Two that are refused.
EXTENDS SmsLong

MCMessages ==
  {[ref |-> n, len |-> n, valid |-> TRUE] : n \in {0, 3, 4, 5, 7, 8, 15, 17, 19}}
    \cup {[ref |-> 100 + n, len |-> n, valid |-> FALSE] : n \in {3, 5}}
=============================================================================
