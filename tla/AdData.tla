------------------------------- MODULE AdData -------------------------------
(***************************************************************************)
(* bci_ad_put() and bci_ad_get() of stack/bci.c: AD structures (length,    *)
(* type, value) written one after another into a buffer, and the wanted    *)
(* ones read from a buffer, which may be one that bci_ad_put() has made or *)
(* any other that has been received.                                       *)
(***************************************************************************)
EXTENDS Integers, SequencesExt

CONSTANTS
    Items,      \* what is put: records of a type and its value, a sequence of
                \* octets or, for an appearance, of one 16-bit number
    MaxItems,   \* how many at most
    Received    \* the buffers that are read and were not put

BCI_AD_FLAGS == 1
BCI_AD_NAME_SHORT == 8
BCI_AD_NAME_COMPLETE == 9
BCI_AD_TX_POWER == 10
BCI_AD_GAP_APPEARANCE == 25
BCI_AD_MFT_DATA == 255

Names == {BCI_AD_NAME_SHORT, BCI_AD_NAME_COMPLETE}
Octets == {BCI_AD_FLAGS, BCI_AD_TX_POWER}
Known == Names \cup Octets \cup {BCI_AD_GAP_APPEARANCE, BCI_AD_MFT_DATA}

Byte == 0 .. 255
Short == 0 .. 65535

\* The pointer of an item of a known type is to what it should be.
AdDataAssumption ==
    /\ \A item \in Items :
        /\ item.type \in Byte
        /\ item.type = BCI_AD_GAP_APPEARANCE => item.value \in Seq(Short)
        /\ item.type # BCI_AD_GAP_APPEARANCE => item.value \in Seq(Byte)
        /\ item.type \in Octets \cup {BCI_AD_GAP_APPEARANCE} => Len(item.value) = 1
    /\ MaxItems \in Nat
    /\ \A octets \in Received : octets \in Seq(Byte)

VARIABLES
    items, todo,    \* the arguments of bci_ad_put(), and those still to put
    buffer,         \* written so far; 1-based
    wanted, found,  \* the types asked of bci_ad_get(), and their values so far
    pos,            \* `data - buffer` in bci_ad_get()
    pc

vars == <<items, todo, buffer, wanted, found, pos, pc>>

Init == /\ \/ /\ items \in UNION {[1 .. n -> Items] : n \in 1 .. MaxItems}
              /\ buffer = <<>>
              /\ pc = "put"
           \/ /\ items = <<>>
              /\ buffer \in Received
              /\ pc = "get"
        /\ todo = items
        /\ wanted \in {Known, Names, Known \ Names}
        /\ found = [t \in {} |-> 0]
        /\ pos = 0

-----------------------------------------------------------------------------
(* bci_ad_put() *)

\* Mistake: the length of a group does not count its type.
EncodeShort(type, body) == <<Len(body), type>> \o body

Encode(type, body) == <<Len(body) + 1, type>> \o body

\* The value as it is written; the octets of an appearance are `u16 & 0x00ff` and
\* `(u16 >> 1) & 0x00ff`.
Body(item) == IF item.type = BCI_AD_GAP_APPEARANCE
              THEN <<item.value[1] % 256, (item.value[1] \div 2) % 256>>
              ELSE item.value

Put == /\ pc = "put" /\ todo # <<>>
       /\ Head(todo).type \in Known
       /\ buffer' = buffer \o Encode(Head(todo).type, Body(Head(todo)))
       /\ todo' = Tail(todo)
       /\ UNCHANGED <<items, wanted, found, pos, pc>>

\* A type that is not known ends the call, with -EINVAL.
PutInvalid == /\ pc = "put" /\ todo # <<>>
              /\ Head(todo).type \notin Known
              /\ pc' = "einval"
              /\ UNCHANGED <<items, todo, buffer, wanted, found, pos>>

PutEnd == /\ pc = "put" /\ todo = <<>>
          /\ pc' = "get"
          /\ UNCHANGED <<items, todo, buffer, wanted, found, pos>>

-----------------------------------------------------------------------------
(* bci_ad_get(), of the whole buffer. *)

len == Len(buffer)
At(i) == buffer[i + 1]
Endless == 1000

\* The octet behind the last one that strncpy(.., data + 2, grouplen - 1) reads: it
\* stops at a NUL, and a size of -1 is no limit.
CopyEnd(grouplen) ==
    LET limit == IF grouplen = 0 THEN Endless ELSE pos + grouplen + 1
        nuls == {i \in pos + 2 .. len - 1 : At(i) = 0}
    IN  IF nuls = {} \/ Min(nuls) >= limit THEN limit ELSE Min(nuls) + 1

\* The octet behind the last one that is read of the group at pos.
ReadEnd(grouplen, type) ==
    IF type \notin wanted THEN pos + 2
    ELSE CASE type \in Octets -> pos + 3
           [] type = BCI_AD_GAP_APPEARANCE -> pos + 4
           [] type \in Names -> CopyEnd(grouplen)
           [] OTHER -> IF grouplen = 0 THEN Endless ELSE pos + grouplen + 1

\* a | b of numbers of 9 bits, a bit being what it is worth.
Bits(k) == {w \in {1, 2, 4, 8, 16, 32, 64, 128, 256} : (k \div w) % 2 = 1}
Or(a, b) == CHOOSE k \in 0 .. 511 : Bits(k) = Bits(a) \cup Bits(b)

\* What is stored, of a group that lies in the buffer.
Value(grouplen, type) ==
    CASE type = BCI_AD_GAP_APPEARANCE -> <<Or(At(pos + 2), 2 * At(pos + 3))>>
      [] type \in Octets -> <<At(pos + 2)>>
      [] OTHER -> SubSeq(buffer, pos + 3, ReadEnd(grouplen, type))

\* `grouplen = *data` before the loop.
First == /\ pc = "get"
         /\ pc' = CASE len = 0 -> "outside"
                    [] len > 0 /\ At(0) = 0 -> "false"
                    [] OTHER -> "loop"
         /\ UNCHANGED <<items, todo, buffer, wanted, found, pos>>

\* Mistake: a group is as long as its length says.
NextGroupShort(grouplen) == pos + grouplen

NextGroup(grouplen) == pos + grouplen + 1

\* The body of the loop; "outside" stands for whatever follows a read outside the
\* buffer.
Loop ==
    /\ pc = "loop" /\ pos + 1 < len
    /\ LET grouplen == At(pos)
           type == At(pos + 1)
       IN  CASE pos + grouplen > len \/ type \notin Known ->
                  /\ pc' = "false" /\ UNCHANGED <<found, pos>>
             [] pos + grouplen <= len /\ type \in Known /\ ReadEnd(grouplen, type) > len ->
                  /\ pc' = "outside" /\ UNCHANGED <<found, pos>>
             [] OTHER ->
                  /\ pos' = NextGroup(grouplen)
                  /\ found' = IF type \in wanted
                              THEN [t \in DOMAIN found \cup {type} |->
                                      IF t = type THEN Value(grouplen, type) ELSE found[t]]
                              ELSE found
                  /\ pc' = pc
    /\ UNCHANGED <<items, todo, buffer, wanted>>

Return == /\ pc = "loop" /\ pos + 1 >= len
          /\ pc' = "true"
          /\ UNCHANGED <<items, todo, buffer, wanted, found, pos>>

Next == Put \/ PutInvalid \/ PutEnd \/ First \/ Loop \/ Return

Spec == Init /\ [][Next]_vars

-----------------------------------------------------------------------------
(* Properties. *)

Ended == pc \in {"true", "false", "einval", "outside"}

\* The last of the structures put of type t.
LastPut(t) == items[CHOOSE i \in DOMAIN items :
                      items[i].type = t /\ \A j \in i + 1 .. Len(items) : items[j].type # t].value

\* What was put is what is got: of each wanted type the last value put, and nothing
\* of any other.
RoundTrip ==
    items # <<>> /\ Ended /\ pc # "einval" =>
        /\ pc = "true"
        /\ DOMAIN found = {items[i].type : i \in DOMAIN items} \cap wanted
        /\ \A t \in DOMAIN found : found[t] = LastPut(t)

\* The least length of a group of a type, by the Core Specification Supplement.
LeastLength(t) == CASE t \in Octets -> 2
                    [] t = BCI_AD_GAP_APPEARANCE -> 3
                    [] OTHER -> 1

\* The buffer is a sequence of complete groups, which begin at the offsets S.
WellFormed ==
    \E S \in SUBSET (0 .. len) :
        /\ 0 \in S /\ len \in S /\ len > 0
        /\ \A i \in S \ {len} : /\ At(i) >= 1 /\ i + 1 < len
                                /\ At(i) >= LeastLength(At(i + 1))
                                /\ i + At(i) + 1 \in S

\* A buffer of complete groups is read inside its bounds, and to the end if all
\* types in it are known.
WellFormedIsRead ==
    WellFormed /\ Ended =>
        /\ pc # "outside"
        /\ pc = "true" => pos = len
=============================================================================
