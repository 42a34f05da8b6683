----------------------------- MODULE AsciiNumber -----------------------------
(***************************************************************************)
(* tcio::num: atou, wrapping_atou and atoi, one character per step, with   *)
(* integers of a scaled-down width.  A history variable holds the number   *)
(* the digits read so far denote, in integers without a width; the code    *)
(* has to return that number, or refuse it.                                *)
(*                                                                         *)
(* A character is a digit, a sign or something else.  Only the characters  *)
(* the code looks at are chosen; the length is known from the start.       *)
(***************************************************************************)
EXTENDS Integers

CONSTANTS
    UMax,           \* u64::MAX
    IMax,           \* i64::MAX
    UMaxCh,         \* U64_MAX_CH: the characters of u64::MAX
    IMaxCh,         \* I64_MAX_CH: the characters of i64::MAX with its sign
    MaxText         \* BOUND: the longest text

ASSUME WidthAssumption ==
    /\ UMax \in Nat /\ IMax \in Nat
    /\ UMaxCh \in Nat /\ IMaxCh \in Nat /\ MaxText \in Nat

VARIABLES
    fn,             \* the function that was called
    len,            \* bytes.len()
    at,             \* "entry", "sign", "digits": where the call is; "some", "none"
    left,           \* the characters not yet read
    sign,           \* 1 or -1
    acc,            \* the accumulator of try_fold, and the result
    denoted,        \* history: what the digits read so far denote
    form            \* history: "number", or "other" once a character was no digit
                    \* or a sign was all there is

numberVars == <<fn, len, at, left, sign, acc, denoted, form>>

Digit == 0..9

NumberTypeOK ==
    /\ fn \in {"atou", "wrapping_atou", "atoi"}
    /\ len \in 0..MaxText /\ left \in 0..len
    /\ at \in {"entry", "sign", "digits", "some", "none"}
    /\ sign \in {1, -1}
    /\ acc \in Int /\ denoted \in Nat
    /\ form \in {"number", "other"}

NumberInit ==
    /\ fn \in {"atou", "wrapping_atou", "atoi"}
    /\ len \in 0..MaxText /\ left = len
    /\ at = "entry" /\ sign = 1
    /\ acc = 0 /\ denoted = 0 /\ form = "number"

(* The range of the integer type.                                          *)
Lowest == IF fn = "atoi" THEN - IMax - 1 ELSE 0
Highest == IF fn = "atoi" THEN IMax ELSE UMax
Fits(n) == n \in Lowest..Highest

(* FAULT: one character too few is allowed.                              *)
TooLong_AtLimit ==
    \/ fn = "atou" /\ len >= UMaxCh
    \/ fn = "atoi" /\ len >= IMaxCh

TooLong ==
    \/ fn = "atou" /\ len > UMaxCh
    \/ fn = "atoi" /\ len > IMaxCh

(* The checks before the loop; wrapping_atou has none.                     *)
Enter ==
    /\ at = "entry"
    /\ at' = IF fn = "wrapping_atou" THEN "digits"
             ELSE IF TooLong \/ len = 0 THEN "none"
             ELSE IF fn = "atoi" THEN "sign" ELSE "digits"
    /\ UNCHANGED <<fn, len, left, sign, acc, denoted, form>>

(* split_first of atoi: a sign must be followed by something.              *)
ReadSign(s) ==
    /\ at = "sign"
    /\ at' = IF left = 1 THEN "none" ELSE "digits"
    /\ form' = IF left = 1 THEN "other" ELSE "number"
    /\ sign' = s
    /\ left' = left - 1
    /\ UNCHANGED <<fn, len, acc, denoted>>

NoSign ==
    /\ at = "sign"
    /\ at' = "digits"
    /\ UNCHANGED <<fn, len, left, sign, acc, denoted, form>>

Add(d) == acc * 10 + d * sign

Wrapped(n) == n % (UMax + 1)

(* checked_mul, checked_add; wrapping_mul, wrapping_add.                   *)
ReadDigit(d) ==
    /\ at = "digits" /\ left > 0
    /\ left' = left - 1
    /\ denoted' = denoted * 10 + d
    /\ IF fn = "wrapping_atou"
       THEN /\ acc' = Wrapped(Wrapped(acc * 10) + d)
            /\ UNCHANGED at
       ELSE IF Fits(acc * 10) /\ Fits(Add(d))
       THEN acc' = Add(d) /\ UNCHANGED at
       ELSE at' = "none" /\ UNCHANGED acc
    /\ UNCHANGED <<fn, len, sign, form>>

ReadOther ==
    /\ at = "digits" /\ left > 0
    /\ left' = left - 1
    /\ form' = "other"
    /\ at' = "none"
    /\ UNCHANGED <<fn, len, sign, acc, denoted>>

Finish ==
    /\ at = "digits" /\ left = 0
    /\ at' = "some"
    /\ UNCHANGED <<fn, len, left, sign, acc, denoted, form>>

NumberNext ==
    \/ Enter \/ NoSign \/ ReadOther \/ Finish
    \/ \E s \in {1, -1} : ReadSign(s)
    \/ \E d \in Digit : ReadDigit(d)

NumberSpec == NumberInit /\ [][NumberNext]_numberVars

-----------------------------------------------------------------------------
(* The characters of the longest number of the type.                       *)
LongestNumber == IF fn = "atoi" THEN IMaxCh ELSE UMaxCh

(* num.rs:11, :47.  A number that is returned is the number the text       *)
(* denotes, up to and including both ends of the range; wrapping_atou      *)
(* returns it modulo the width, however often it has wrapped.  A text that *)
(* is refused is empty, longer than the longest number, not a number, or   *)
(* denotes one that does not fit: more digits only take it further away.   *)
NumberIsExact ==
    /\ at = "some" =>
         /\ left = 0 /\ form = "number"
         /\ fn = "wrapping_atou" => acc = Wrapped(denoted)
         /\ fn # "wrapping_atou" => acc = sign * denoted /\ Fits(acc) /\ len > 0
    /\ at = "none" =>
         \/ form = "other"
         \/ fn # "wrapping_atou" /\ (len = 0 \/ len > LongestNumber \/ ~ Fits(sign * denoted))

(* What the loop keeps.                                                    *)
NumberInv ==
    /\ NumberTypeOK
    /\ sign = -1 => fn = "atoi"
    /\ at = "entry" => left = len
    /\ at \in {"entry", "sign"} => acc = 0 /\ denoted = 0 /\ sign = 1
    /\ at = "sign" => left > 0 /\ len > 0 /\ fn = "atoi"
    /\ at \in {"entry", "sign", "digits"} => form = "number"
    /\ at \in {"digits", "some"} =>
         /\ fn = "wrapping_atou" => acc = Wrapped(denoted)
         /\ fn # "wrapping_atou" => acc = sign * denoted /\ Fits(acc) /\ len > 0
    /\ NumberIsExact
=============================================================================
