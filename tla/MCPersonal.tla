----------------------------- MODULE MCPersonal -----------------------------
(***************************************************************************)
(* Browsers, accounts and controls for PersonalSync.  Cards c1 and c2 show *)
(* the buttons of items x and y on the home page of browser b1, page is    *)
(* its personal page, c3 a card for x in a second browser b2.  Browsers    *)
(* share nothing but accounts, so only one of them is looked at at a time. *)
(***************************************************************************)
EXTENDS PersonalSync, TLC

CONSTANTS u1, u2, b1, b2, c1, c2, c3, page, x, y

MCBrowserOf == [c \in Controls |-> IF c = c3 THEN b2 ELSE b1]
MCItemOf == [m \in Marks |-> m]
MCButtonsOf == [c \in Controls |-> CASE c = c2 -> {y} [] c = page -> {} [] OTHER -> {x}]
MCPages == {page} \cap Controls

OneEach == [b \in Browsers |-> IF b = b1 THEN {u1} ELSE {u2}]
SharedBrowser == [b \in Browsers |-> {u1, u2}]
Nobody == [b \in Browsers |-> {}]

-----------------------------------------------------------------------------
\* Constraints on the states TLC goes on from.

Mounted == {c \in Controls : sync[c].step # "closed"}

TwoMounted == Cardinality(Mounted) <= 2

OneBrowserAtATime ==
  Cardinality({BrowserOf[c] : c \in Mounted} \cup {b \in Browsers : Clicking(b)}) <= 1

\* Three changes of session, lost requests and answers; from the second on, one
\* control at a time.
ThreeDisturbances ==
  /\ used.logins + used.faults <= 3
  /\ used.logins + used.faults >= 2 => Cardinality(Mounted) <= 1
=============================================================================
