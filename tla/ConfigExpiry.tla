---------------------------- MODULE ConfigExpiry ----------------------------
(***************************************************************************)
(* The refresh lifetime has one setting and two readers: parseExpiryToMs,  *)
(* for rows, keys and the cookie, and jsonwebtoken, for the exp claim.     *)
(* A setting is a number, kept in tenths, and a unit as it is spelled;     *)
(* lifetimes are in tenths of a second.                                    *)
(***************************************************************************)
EXTENDS Naturals

CONSTANT Setting  \* values of JWT_REFRESH_EXPIRY

\* Some of the spellings that jsonwebtoken knows, with their seconds and their
\* last letters.
Seconds ==
  [m |-> 60, min |-> 60, minutes |-> 60, h |-> 3600, hour |-> 3600,
   d |-> 86400, days |-> 86400, s |-> 1, second |-> 1, w |-> 604800]

LastLetter ==
  [m |-> "m", min |-> "n", minutes |-> "s", h |-> "h", hour |-> "r",
   d |-> "d", days |-> "s", s |-> "s", second |-> "d", w |-> "w"]

ASSUME ConfigAssumption == Setting \subseteq [tenths : Nat, unit : DOMAIN Seconds]

\* jsonwebtoken takes decimals and every spelling.
TokenLifetime(e) == e.tenths * Seconds[e.unit]

Fallback == 10 * 7 * 86400

ParseSpellings(e) ==
  LET value == 10 * (e.tenths \div 10) IN
  CASE e.unit \in {"m", "min", "minutes"} -> value * 60
    [] e.unit \in {"h", "hour"} -> value * 3600
    [] e.unit \in {"d", "days"} -> value * 86400
    [] OTHER -> Fallback

\* parseInt drops what follows the whole number; the unit is the last letter.
ParseExpiryToMs(e) ==
  LET value == 10 * (e.tenths \div 10)
      letter == LastLetter[e.unit]
  IN CASE letter = "m" -> value * 60
       [] letter = "h" -> value * 3600
       [] letter = "d" -> value * 86400
       [] OTHER -> Fallback

\* A whole number and one of the letters m, h and d.
Plain(e) == e.tenths % 10 = 0 /\ e.unit \in {"m", "h", "d"}

\* In step for every plain setting; for any other by accident only, when the
\* lifetime is zero or happens to be the fallback of seven days.
LifetimesAgree ==
  \A e \in Setting :
    LET inStep == ParseExpiryToMs(e) = TokenLifetime(e) IN
    /\ Plain(e) => inStep
    /\ inStep => Plain(e) \/ TokenLifetime(e) \in {0, Fallback}

=============================================================================
