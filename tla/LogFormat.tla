----------------------------- MODULE LogFormat -----------------------------
(***************************************************************************)
(* itos() and utos() of platform/nrf51822/log.c, which log_int() and       *)
(* log_uint() call: the decimal text of a number of Width bits, digits     *)
(* from the last to the first and then reversed in place, in a buffer that *)
(* is just as long as the longest text.  (32 bits and 12 bytes on the SoC.)*)
(***************************************************************************)
EXTENDS Integers, Sequences

CONSTANTS Width, ItosLen

VARIABLES
    signed, number,     \* which function, and its argument
    n,                  \* what is left to convert
    itosbuf,            \* a digit is itself
    p1, p2,             \* offsets in itosbuf
    pc

vars == <<signed, number, n, itosbuf, p1, p2, pc>>

Minus == 10
Nul == 11
Junk == 12

\* Mistake: the digits of negative remainders are in the order of the others.
itoc_unmirrored == <<1, 2, 3, 4, 5, 6, 7, 8, 9, 0, 1, 2, 3, 4, 5, 6, 7, 8, 9>>

itoc == <<9, 8, 7, 6, 5, 4, 3, 2, 1, 0, 1, 2, 3, 4, 5, 6, 7, 8, 9>>

\* n / 10 in C, which rounds towards zero.
Tenth(a) == IF a < 0 THEN -((-a) \div 10) ELSE a \div 10

Inputs(s) == IF s THEN -(2^(Width - 1)) .. 2^(Width - 1) - 1 ELSE 0 .. 2^Width - 1

\* The powers of ten.
TenTo[k \in Nat] == IF k = 0 THEN 1 ELSE 10 * TenTo[k - 1]

\* The digits of every number, its sign and the terminator fit in the buffer.
LogFormatAssumption ==
    /\ Width \in Nat \ {0} /\ ItosLen \in Nat /\ ItosLen > 2
    /\ \A s \in BOOLEAN : \A a \in Inputs(s) :
           IF a < 0 THEN -a < TenTo[ItosLen - 2] ELSE a < TenTo[ItosLen - 1]

Init == /\ signed \in BOOLEAN
        /\ number \in Inputs(signed)
        /\ n = number
        /\ itosbuf = [i \in 0 .. ItosLen - 1 |-> Junk]
        /\ p1 = 0 /\ p2 = 0
        /\ pc = "digits"

Write(c) == itosbuf' = [itosbuf EXCEPT ![p1] = c]

\* The body of the first loop.
Digit == /\ pc = "digits"
         /\ n' = Tenth(n)
         /\ Write(itoc[10 + n - 10 * Tenth(n)])
         /\ p1' = p1 + 1
         /\ pc' = IF n' # 0 THEN "digits"
                  ELSE IF signed /\ n < 0 THEN "minus" ELSE "nul"
         /\ UNCHANGED <<signed, number, p2>>

Sign == /\ pc = "minus"
        /\ Write(Minus)
        /\ p1' = p1 + 1
        /\ pc' = "nul"
        /\ UNCHANGED <<signed, number, n, p2>>

Terminate == /\ pc = "nul"
             /\ Write(Nul)
             /\ p1' = p1 - 1
             /\ pc' = "reverse"
             /\ UNCHANGED <<signed, number, n, p2>>

\* The body of the second loop.
Swap == /\ pc = "reverse" /\ p2 < p1
        /\ itosbuf' = [itosbuf EXCEPT ![p1] = itosbuf[p2], ![p2] = itosbuf[p1]]
        /\ p1' = p1 - 1 /\ p2' = p2 + 1
        /\ UNCHANGED <<signed, number, n, pc>>

Return == /\ pc = "reverse" /\ p2 >= p1
          /\ pc' = "done"
          /\ UNCHANGED <<signed, number, n, itosbuf, p1, p2>>

Next == Digit \/ Sign \/ Terminate \/ Swap \/ Return

Spec == Init /\ [][Next]_vars

-----------------------------------------------------------------------------
\* The number that a sequence of digits is.
Decimal(digits) ==
    LET value[i \in 0 .. Len(digits)] ==
            IF i = 0 THEN 0 ELSE 10 * value[i - 1] + digits[i]
    IN  value[Len(digits)]

\* The characters before the terminator.
text == LET len == CHOOSE i \in 0 .. ItosLen - 1 :
                     itosbuf[i] = Nul /\ \A j \in 0 .. i - 1 : itosbuf[j] # Nul
        IN  [i \in 1 .. len |-> itosbuf[i - 1]]

\* The text is that of the number, the least one included, whose absolute value
\* is not a number of the same type; it has no leading zero.
TextIsNumber ==
    pc = "done" =>
        LET negative == text[1] = Minus
            digits == IF negative THEN Tail(text) ELSE text
        IN  /\ digits # <<>> /\ \A i \in DOMAIN digits : digits[i] \in 0 .. 9
            /\ number = IF negative THEN -Decimal(digits) ELSE Decimal(digits)
            /\ digits[1] = 0 => Len(text) = 1
=============================================================================
