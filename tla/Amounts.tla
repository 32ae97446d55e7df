-------------------------------- MODULE Amounts --------------------------------
(***************************************************************************)
(* The amounts of the bridge. The last four digits of a deposit name the   *)
(* chain that is to be paid (9000 + the internal id), the last four digits *)
(* of a payment repeat the nonce of its deposit. On the chains that store  *)
(* only so many digits the code stands before the digits that are lost.    *)
(*                                                                         *)
(* An amount is a natural number of the smallest unit of its token; the    *)
(* strings of the source are read as its decimal digits. The fees are in   *)
(* units of 10^-Precision. A result Undefined stands for `state: false` or for  *)
(* nothing returned. Amounts under 10^-7, which print with an exponent,    *)
(* are left out.                                                           *)
(***************************************************************************)
EXTENDS Integers

CONSTANTS
  Chains,
  Undefined,
  InternalId,    \* [Chains -> Nat]
  MaxAmount,     \* [Chains -> Nat]: 2^bits - 1 of a chain that stores few digits, else 0
  Loopring,      \* the chains that carry the code in a memo
  ZkSync,        \* the chain whose amounts must be packable
  Immutable,     \* the chain whose amounts have at most ten decimals
  Precision,     \* at least the decimals of every token
  WideDecimals,  \* 18 in the code
  PackDigits,    \* 11 in the code: digits kept of a deposit for ZkSync
  ImxDecimals,   \* 6 in the code: decimals kept before the nonce on Immutable
  MaxWidth       \* bound: digits of an amount

ASSUME AmountsAssumption ==
  /\ InternalId \in [Chains -> Nat \ {0}]
  /\ MaxAmount \in [Chains -> Nat]
  /\ Loopring \subseteq Chains /\ ZkSync # Immutable
  /\ {Precision, WideDecimals, PackDigits, ImxDecimals, MaxWidth} \subseteq Nat

PNumber == 10000   \* SIZE_OP.P_NUMBER = 4 digits

\* 10^k.
Ten[k \in Nat] == IF k = 0 THEN 1 ELSE 10 * Ten[k - 1]

Cut(n, k) == n \div Ten[k]
Width(n) == CHOOSE w \in 1..MaxWidth : n < Ten[w] /\ (w > 1 => n >= Ten[w - 1])
Zeros(n) == CHOOSE z \in 0..MaxWidth : Cut(n, z) % 10 # 0 /\ n % Ten[z] = 0
TrimZeros(n) == IF n = 0 THEN 0 ELSE Cut(n, Zeros(n))

\* `a > b` of two strings of digits, a not longer than b: digit by digit.
StringAbove(a, b) == a > Cut(b, Width(b) - Width(a))

-----------------------------------------------------------------------------
(* The code that a deposit carries, from the decimal string of the amount.  *)

\* How many digits stand behind the point once the zeros at the end are gone.
DecimalsLeft(n, decimals) == IF Zeros(n) < decimals THEN decimals - Zeros(n) ELSE 0

ChainCode(code) == IF code \in 9000..10000 THEN code % 1000 ELSE 0

\* Mutant: the exception for codes that end in 0 is forgotten.
SecurityCodePlain(n, decimals) ==
  LET w == TrimZeros(n) % PNumber
  IN  IF n = 0 \/ DecimalsLeft(n, decimals) \in 1..3 THEN 0
      ELSE ChainCode(IF w \in 100..999 THEN w * 10 ELSE w)

\* A window with the point in it reads as a number that is too small, and a code
\* that lost two digits or more is filled up with one zero too few.
SecurityCode(n, decimals) ==
  LET left == DecimalsLeft(n, decimals)
      w == TrimZeros(n) % PNumber
  IN  IF n = 0 \/ left \in 1..3 \/ (left = 0 /\ TrimZeros(n) < 1000) THEN 0
      ELSE ChainCode(CASE w >= 1000 /\ (w \div 10) % 100 = 90 /\ w % 10 # 0 -> (w % 1000) * 10
                       [] w \in 100..999 -> w * 10
                       [] OTHER -> w)

\* On zkSync Lite the code starts at the first 9 of the last four characters; a
\* whole amount keeps its zeros, and of three digits only the last is read.
ZksyncLiteCode(n, decimals) ==
  LET left == DecimalsLeft(n, decimals)
      digits == IF left = 0 THEN Cut(n, decimals) ELSE TrimZeros(n)
      w == digits % (IF left = 3 THEN 1000 ELSE PNumber)
  IN  IF n = 0 \/ left \in 1..2 \/ (left = 0 /\ digits < 1000) THEN 0
      ELSE CASE w >= 9000 -> ChainCode(w)
             [] w < 9000 /\ w % 1000 >= 900 -> ChainCode((w % 1000) * 10)
             [] OTHER -> 0

\* The chain of the configuration with this internal id.
ChainOf(id) == IF \E c \in Chains : InternalId[c] = id
               THEN CHOOSE c \in Chains : InternalId[c] = id ELSE Undefined

-----------------------------------------------------------------------------
(* Where the code stands in an amount.                                      *)

ValidDigits(c, n) ==
  LET r == TrimZeros(n) IN
  Width(MaxAmount[c]) - (IF StringAbove(r, MaxAmount[c]) THEN 1 ELSE 0)

\* The digits behind the code. A number with more significant digits than the
\* chain can store is "inValid" and is treated as on a chain without a limit.
Tail(c, n) ==
  IF /\ MaxAmount[c] > 0
     /\ Width(TrimZeros(n)) <= Width(MaxAmount[c])
     /\ Width(n) > ValidDigits(c, n)
  THEN Width(n) - ValidDigits(c, n) ELSE 0

WithCode(n, k, code) == Cut(n, k + 4) * Ten[k + 4] + code * Ten[k] + (n % Ten[k])

TooShort(n) == n < 1000

\* Mutant: the code is put at the end, wherever the chain cuts the amount.
TAmountAtEnd(c, n, code) ==
  IF TooShort(n) THEN Undefined ELSE IF c \in Loopring THEN n ELSE WithCode(n, 0, code)

TAmountFromRAmount(c, n, code) ==
  IF TooShort(n) THEN Undefined
  ELSE IF MaxAmount[c] = 0 /\ c \in Loopring THEN n ELSE WithCode(n, Tail(c, n), code)

PTextFromTAmount(c, n) == IF TooShort(n) THEN Undefined ELSE Cut(n, Tail(c, n)) % PNumber

RAmountFromTAmount(c, n) == IF TooShort(n) THEN Undefined ELSE WithCode(n, Tail(c, n), 0)

AmountFlag(c, n) == IF TooShort(n) THEN 0 ELSE PTextFromTAmount(c, n) % 9000

-----------------------------------------------------------------------------
(* What is paid for a deposit.                                              *)

DivUp(a, b)   == IF a >= 0 THEN (a + b - 1) \div b ELSE -((b - 1 - a) \div b)
HalfUp(a, b)  == IF a >= 0 THEN (2 * a + b) \div (2 * b) ELSE -((b - 2 * a) \div (2 * b))

FeeDigits(decimals) == IF decimals = WideDecimals THEN 5 ELSE 2

\* Mutant: the trading fee is not withheld.
ToAmountNoFee(value, toDecimals, tradingFee, gasFeeRatio) ==
  LET unit == Ten[Precision - FeeDigits(toDecimals)]
      gasFee == DivUp(value * gasFeeRatio, 1000 * unit) * unit
  IN  value - gasFee

\* The value is in units of 10^-Precision, the ratio of the gas fee in thousandths.
ToAmountFromUserAmount(value, toDecimals, tradingFee, gasFeeRatio) ==
  LET x == value - tradingFee
      unit == Ten[Precision - FeeDigits(toDecimals)]
      gasFee == DivUp(x * gasFeeRatio, 1000 * unit) * unit
  IN  x - gasFee

\* Of the zksync library: the largest amount with a mantissa that fits.
ClosestPackable(n) ==
  LET k == CHOOSE k \in 0..MaxWidth : /\ Cut(n, k) <= MaxAmount[ZkSync]
                                      /\ k > 0 => Cut(n, k - 1) > MaxAmount[ZkSync]
  IN  Cut(n, k) * Ten[k]

\* More than ImxDecimals + 4 decimals: the nonce is put behind the first ones. A
\* whole number has no decimals at all, and reading them throws. The code divides by
\* 10^decimals in doubles; amounts of more digits than these keep are left out.
ImxAmount(n, decimals, nonce) ==
  LET keep == decimals - ImxDecimals IN
  IF n % Ten[decimals] # 0 /\ DecimalsLeft(n, decimals) > ImxDecimals + 4
  THEN Cut(n, keep) * Ten[keep] + nonce * Ten[keep - 4] ELSE n

\* The deposit's amount without its code, for ZkSync cut to its first digits.
RealAmount(from, to, n) ==
  LET r == RAmountFromTAmount(from, n) IN
  IF to = ZkSync /\ Width(r) > PackDigits
  THEN Cut(r, Width(r) - PackDigits) * Ten[Width(r) - PackDigits] ELSE r

\* What is left of the deposit after the fees, in units of the target's token.
ReadyAmount(from, fromDecimals, to, toDecimals, n, tradingFee, gasFeeRatio) ==
  LET value == RealAmount(from, to, n) * Ten[Precision - fromDecimals]
  IN  HalfUp(ToAmountFromUserAmount(value, toDecimals, tradingFee, gasFeeRatio),
             Ten[Precision - toDecimals])

\* [tAmount, thrown]; tAmount is Undefined where the code has no `state`.
AmountToSend(from, fromDecimals, to, toDecimals, n, tradingFee, gasFeeRatio, nonce) ==
  IF RAmountFromTAmount(from, n) = Undefined \/ nonce > 8999
  THEN [tAmount |-> Undefined, thrown |-> FALSE]
  ELSE LET ready == ReadyAmount(from, fromDecimals, to, toDecimals, n, tradingFee, gasFeeRatio)
           t == TAmountFromRAmount(to, ready, nonce)
       IN  [tAmount |-> IF t = Undefined THEN Undefined
                        ELSE IF to = ZkSync THEN ClosestPackable(t)
                        ELSE IF to = Immutable THEN ImxAmount(t, toDecimals, nonce) ELSE t,
            thrown |-> t # Undefined /\ to = Immutable /\ t % Ten[toDecimals] = 0]
=============================================================================
