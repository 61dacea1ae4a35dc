----------------------------- MODULE AddressBook -----------------------------
(* What registration and verification promise the owner of an address: an     *)
(* account is opened once, with a link of its own; the link is mailed to that *)
(* address, at most once; it verifies that account and is spent.              *)
CONSTANTS Address, Link

VARIABLES
  opened,  \* addresses that have an account
  links,   \* links not spent: [to, token]
  mailbox  \* links that arrived

book == <<opened, links, mailbox>>

Open(a, t) ==
  /\ a \notin opened
  /\ \A l \in links \cup mailbox : l.token # t
  /\ opened' = opened \cup {a}
  /\ links' = links \cup {[to |-> a, token |-> t]}
  /\ UNCHANGED mailbox

Receive(l) ==
  /\ \A m \in mailbox : m.to # l.to
  /\ mailbox' = mailbox \cup {l}
  /\ UNCHANGED <<opened, links>>

Verify(l) ==
  /\ l \in mailbox
  /\ links' = links \ {l}
  /\ UNCHANGED <<opened, mailbox>>

BookInit == opened = {} /\ links = {} /\ mailbox = {}

BookNext ==
  \/ \E a \in Address, t \in Link : Open(a, t)
  \/ \E l \in links : Receive(l) \/ Verify(l)

BookSpec == BookInit /\ [][BookNext]_book

=============================================================================
