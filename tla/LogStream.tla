------------------------------ MODULE LogStream ------------------------------
(***************************************************************************)
(* muduo::LogStream and its FixedBuffer: strings and numbers are put into  *)
(* the buffer of one log line, whole or not at all, and large counts are   *)
(* formatted with a unit.  Digits stand for themselves; integers have 8    *)
(* bits, so the longest texts are -128 and 0xFF.                           *)
(***************************************************************************)
EXTENDS Integers, Sequences

CONSTANTS SIZE,             \* of the FixedBuffer
          kMaxNumericSize,  \* room that a number needs: the longest and the NUL
          Strings,          \* lengths of the strings put into a line
          Integers8,        \* integers put into a line, signed and unsigned
          Numbers           \* counts formatted with a unit

VARIABLES data_,            \* the characters before cur_
          number,           \* the last number put: where, its value and base
          count             \* a count just formatted

streamVars == <<data_, number, count>>

Minus == -1
Hex == -2                   \* the x of 0x
Letter == -3
NoNumber == [at |-> 0, to |-> 0, v |-> 0, base |-> 0]
NoCount == [base |-> 0, unit |-> 0, decimals |-> 0, mantissa |-> 0, exact |-> TRUE]
avail == SIZE - Len(data_)
-----------------------------------------------------------------------------
\* convert and convertHex: the lowest digit first, then reversed.  The
\* remainder of C++ has the sign of i, and zero[lsd] is the digit of -lsd too.
Magnitude(i) == IF i < 0 THEN -i ELSE i
quotientOf(i, base) == IF i < 0 THEN -((-i) \div base) ELSE i \div base
lsd(i, base) == Magnitude(i - quotientOf(i, base) * base)

more_Positive(i) == i > 0
more(i) == i # 0            \* the condition of the loop, after its first turn

digits[i \in Int, base \in {10, 16}] ==
    LET rest == quotientOf(i, base)
    IN (IF more(rest) THEN digits[rest, base] ELSE <<>>) \o <<lsd(i, base)>>

convert(v) == (IF v < 0 THEN <<Minus>> ELSE <<>>) \o digits[v, 10]
convertHex(v) == digits[v, 16]
-----------------------------------------------------------------------------
fixedAppend(text) == IF avail > Len(text) THEN data_ \o text ELSE data_

put(n) == /\ data_' = fixedAppend([i \in 1 .. n |-> Letter])
          /\ count' = NoCount /\ UNCHANGED number

putNumber(text, prefix, v, base) ==
    /\ IF avail >= kMaxNumericSize
       THEN /\ data_' = data_ \o prefix \o text
            /\ number' = [at |-> Len(data_) + Len(prefix), to |-> Len(data_ \o prefix \o text),
                          v |-> v, base |-> base]
       ELSE UNCHANGED <<data_, number>>
    /\ count' = NoCount

formatInteger(v) == putNumber(convert(v), <<>>, v, 10)
putPointer(v) == v >= 0 /\ putNumber(convertHex(v), <<0, Hex>>, v, 16)

resetBuffer == data_' = <<>> /\ number' = NoNumber /\ count' = NoCount
-----------------------------------------------------------------------------
\* formatSI (base 1000) and formatIEC (base 1024) of s.x * base^s.j, or of
\* one less: below a threshold of bound thousandths of base^unit (lower units
\* are compared exactly, those further apart differ by more than s.x can make
\* up).
Less(s, a, b) == IF s.less THEN a <= b ELSE a < b
Below(s, bound, base, unit) ==
    \/ unit > s.j + 1
    \/ unit = s.j + 1 /\ Less(s, 1000 * s.x, bound * base)
    \/ unit = s.j /\ Less(s, 1000 * s.x, bound)

\* static_cast<double>(s): above 2^53, and so for j = 4 only, one less than a
\* multiple of base^j is rounded to the multiple.
cast(s, base) ==
    [s EXCEPT !.less = s.less /\ (s.j < 4 \/ s.x <= IF base = 1000 THEN 9007 ELSE 8192)]

bounds(base) == <<9995, 99950, IF base = 1000 THEN 999500 ELSE 1023500>>

\* The first of the bands above s, three for each of k, M, G, T and P, and
\* one for E.
unitOf(b) == (b - 1) \div 3 + 1
decimalsOf(b) == 2 - ((b - 1) % 3)
Band(s, base) ==
    LET below(b) == b = 16 \/ Below(s, bounds(base)[3 - decimalsOf(b)], base, unitOf(b))
    IN CHOOSE b \in 1 .. 16 : below(b) /\ \A a \in 1 .. b - 1 : ~below(a)

\* snprintf with 2, 1 or 0 decimals: the nearest, either one of a tie, which
\* one less is not.
Rounded(n, d, less) ==
    {m \in {n \div d, n \div d + 1} :
        2 * Magnitude(m * d - n) <= d /\ ~(less /\ 2 * (m * d - n) = d)}

\* formatSI compares s itself, and formatIEC the double; both print the double.
format(s, base) ==
    /\ LET n == cast(s, base)
           b == Band(IF base = 1000 THEN s ELSE n, base)
           small == s.j = 0 /\ s.x < base
           printed == IF small THEN {s.x}
                      ELSE Rounded(n.x * 10^decimalsOf(b), base^(unitOf(b) - n.j), n.less)
       IN \E m \in printed :
             count' = [base |-> base, unit |-> IF small THEN 0 ELSE unitOf(b),
                       decimals |-> IF small THEN 0 ELSE decimalsOf(b), mantissa |-> m,
                       exact |-> n = s]
    /\ UNCHANGED <<data_, number>>

StreamInit == data_ = <<>> /\ number = NoNumber /\ count = NoCount
StreamNext == \/ \E n \in Strings : put(n)
              \/ \E v \in Integers8 : formatInteger(v) \/ putPointer(v)
              \/ resetBuffer
              \/ data_ = <<>> /\ \E s \in Numbers, base \in {1000, 1024} : format(s, base)
-----------------------------------------------------------------------------
\* There is always room for the NUL that convert and debugString write at
\* cur_, whatever strings and numbers came before.
RoomForEnd == Len(data_) < SIZE

\* A number can be read back from the line, the smallest negative one too,
\* and has no leading zeros.
NumbersReadBack ==
    number.base # 0 =>
        LET text == SubSeq(data_, number.at + 1, number.to)
            body == IF text[1] = Minus THEN Tail(text) ELSE text
            value[i \in 0 .. Len(body)] == IF i = 0 THEN 0 ELSE number.base * value[i - 1] + body[i]
        IN /\ number.v = IF text[1] = Minus THEN -value[Len(body)] ELSE value[Len(body)]
           /\ Len(body) > 1 => body[1] # 0

\* A count with a unit has three digits, or is a whole 1000 .. 1023 of a unit
\* of 1024: printing never rounds up to one more.  The exception is formatSI of
\* a count that the double has rounded up to a threshold, above 2^53:
\* 99949999999999999 gives "100.0P", where LogStream.h:192 says "atmost 5
\* characters".
ThreeDigits ==
    LET largest == IF count.decimals = 0 THEN count.base - 1 ELSE 999
        crossed == count.base = 1000 /\ count.unit = 5 /\ ~count.exact
    IN count.unit # 0 => count.mantissa \in 100 .. IF crossed THEN largest + 1 ELSE largest

\* Whatever is put into a line reads back, and the line keeps room for its end.
LineReadsBack == RoomForEnd /\ NumbersReadBack /\ ThreeDigits
=============================================================================
