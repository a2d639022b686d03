------------------------------- MODULE Config -------------------------------
(***************************************************************************)
(* The Config object (src/config.rs): fields PHP sets and reads back.  Most *)
(* are stored as they come and stand in the model as one, plain.  Two are  *)
(* converted on the way in and out:                                        *)
(*   timeout  milliseconds, stored as a Duration                           *)
(*   token    hexadecimal text, stored as a 128-bit number; text that is   *)
(*            no such number is ignored                                    *)
(*                                                                         *)
(* Definitions named X_Y are wrong versions of X, as in the other modules. *)
(***************************************************************************)
EXTENDS Integers, SequencesExt

CONSTANTS
  PlainValues,   \* values of a field that is stored as it comes
  Millis,        \* the timeouts PHP sets
  MsPerSec,      \* 1000
  Radix,         \* 16
  TokenMax,      \* 2^128 - 1
  Texts          \* the texts PHP passes as a token

ASSUME ConfigAssumption ==
  /\ Millis \subseteq Nat /\ MsPerSec \in Nat \ {0}
  /\ Radix \in Nat \ {0, 1} /\ TokenMax \in Nat
  \* The characters of a text: 0 .. Radix - 1 are the digits, Radix is any
  \* character that is none.
  /\ Texts \subseteq Seq(0 .. Radix)

VARIABLE inner   \* Config::inner

None == -1

Duration == [secs: Nat, ms: 0 .. MsPerSec - 1]
NoDuration == [secs |-> None, ms |-> 0]

ConfigTypeOK ==
  inner \in [plain: PlainValues, timeout: Duration \cup {NoDuration},
             token: 0 .. TokenMax \cup {None}]

ConfigInit ==
  inner \in [plain: PlainValues, timeout: {NoDuration}, token: {None}]

-----------------------------------------------------------------------------
\* Duration::from_millis and as_millis.
FromMillis(ms) == [secs |-> ms \div MsPerSec, ms |-> ms % MsPerSec]
AsMillis(d) == d.secs * MsPerSec + d.ms

\* u128::from_str_radix: None for an error, be it no digit at all, a
\* character that is none, or a number of more than 128 bits.
FromStrRadix(text) ==
  LET Next(v, d) == IF v = None \/ d = Radix \/ v * Radix + d > TokenMax
                      THEN None ELSE v * Radix + d
  IN IF text = <<>> THEN None ELSE FoldLeft(Next, 0, text)

Hex_ZeroEmpty(v) ==
  LET digits[n \in 0 .. v] ==
        IF n = 0 THEN <<>> ELSE Append(digits[n \div Radix], n % Radix)
  IN digits[v]

\* format!("{:x}"): no leading zeros, at least one digit.
Hex(v) ==
  LET digits[n \in 0 .. v] ==
        IF n < Radix THEN <<n>> ELSE Append(digits[n \div Radix], n % Radix)
  IN digits[v]

-----------------------------------------------------------------------------
\* Setters of one field each; an Option is a set of at most one value.
GetPlain(c) == c.plain
SetPlain(c, v) == [c EXCEPT !.plain = v]

GetTimeout(c) == IF c.timeout = NoDuration THEN {} ELSE {AsMillis(c.timeout)}

SetTimeout(c, option) ==
  [c EXCEPT !.timeout = IF option = {} THEN NoDuration
                        ELSE FromMillis(CHOOSE ms \in option : TRUE)]

GetToken(c) == IF c.token = None THEN {} ELSE {Hex(c.token)}

SetToken(c, option) ==
  LET t == FromStrRadix(CHOOSE text \in option : TRUE) IN
  CASE option = {} -> [c EXCEPT !.token = None]
    [] option # {} /\ t # None -> [c EXCEPT !.token = t]
    [] OTHER -> c

\* What the script may do to its Config.
ConfigStep ==
  \/ \E v \in PlainValues : inner' = SetPlain(inner, v)
  \/ \E ms \in Millis : inner' = SetTimeout(inner, {ms})
  \/ inner' = SetTimeout(inner, {})
  \/ \E text \in Texts : inner' = SetToken(inner, {text})
  \/ inner' = SetToken(inner, {})

-----------------------------------------------------------------------------
\* A new Config that is handed what the getters of another return is the same
\* as it: the conversions of timeouts and of the reset token lose nothing, at
\* 0, at a whole second and at the largest number included.
CopiesOver ==
  \A new \in [plain: PlainValues, timeout: {NoDuration}, token: {None}] :
    SetToken(SetTimeout(SetPlain(new, GetPlain(inner)), GetTimeout(inner)),
             GetToken(inner)) = inner
=============================================================================
