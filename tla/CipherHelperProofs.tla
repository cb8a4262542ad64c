-------------------------- MODULE CipherHelperProofs --------------------------
(***************************************************************************)
(* Proofs about PaddingLeft (crypto.js) for keys of every length, in      *)
(* UTF-16 code units, and about the global pkey it leaves behind.         *)
(* What the UTF-8 encoding (stringToByte, a fold) then makes of the key   *)
(* needs induction over the string and stays with TLC (AsciiKeyPadded,    *)
(* KeyNormalisation).                                                     *)
(***************************************************************************)
EXTENDS CipherHelper, TLAPS

(* A key of at most length units is left-padded with '0' to exactly       *)
(* length units, and ends with the key itself.                            *)
LEMMA PaddingLeftShort ==
    ASSUME NEW k \in Str, NEW length \in Nat, Len(k) <= length
    PROVE  /\ Len(PaddingLeft(k, length)) = length
           /\ \A i \in 1..(length - Len(k)) : PaddingLeft(k, length)[i] = Zero
           /\ \A i \in 1..Len(k) : PaddingLeft(k, length)[length - Len(k) + i] = k[i]
<1>1. CASE Len(k) < length
    <2> DEFINE z == [i \in 1..(length - Len(k)) |-> Zero]
    <2>1. PaddingLeft(k, length) = z \o k
        BY <1>1 DEF PaddingLeft
    <2>2. z \in Seq(Nat) /\ Len(z) = length - Len(k)
        BY DEF Zero
    <2>3. QED
        BY <2>1, <2>2
<1>2. CASE Len(k) = length
    BY <1>2 DEF PaddingLeft
<1>3. QED
    BY <1>1, <1>2

(* A key longer than length keeps only the units after its first length  *)
(* (pkey.slice(length)): the trailing length units are kept only when    *)
(* the key is exactly twice as long.                                     *)
LEMMA PaddingLeftLong ==
    ASSUME NEW k \in Str, NEW length \in Nat, Len(k) > length
    PROVE  /\ PaddingLeft(k, length) = SubSeq(k, length + 1, Len(k))
           /\ Len(PaddingLeft(k, length)) = Len(k) - length
<1>1. ~(Len(k) < length)
    OBVIOUS
<1>2. PaddingLeft(k, length) = SubSeq(k, length + 1, Len(k))
    BY <1>1 DEF PaddingLeft
<1>3. Len(SubSeq(k, length + 1, Len(k))) = Len(k) - length
    OBVIOUS
<1>4. QED
    BY <1>2, <1>3

(* crypto.js:48: for every key of 17 to 31 code units, the key AESEncrypto *)
(* uses is shorter than the 16 units spec 4.5 requires, so it is never   *)
(* the key's trailing 16.                                                  *)
THEOREM SliceKeepsHeadless ==
    \A k \in Str : 17 <= Len(k) /\ Len(k) <= 31 =>
        /\ Len(PaddingLeft(k, 16)) < 16
        /\ PaddingLeft(k, 16) # SubSeq(k, Len(k) - 15, Len(k))
<1> SUFFICES ASSUME NEW k \in Str, 17 <= Len(k) /\ Len(k) <= 31
             PROVE  /\ Len(PaddingLeft(k, 16)) < 16
                    /\ PaddingLeft(k, 16) # SubSeq(k, Len(k) - 15, Len(k))
    OBVIOUS
<1>1. Len(PaddingLeft(k, 16)) = Len(k) - 16
    <2>1. Len(k) > 16
        OBVIOUS
    <2>2. 16 \in Nat
        OBVIOUS
    <2>3. QED
        BY <2>1, <2>2, PaddingLeftLong
<1>2. Len(SubSeq(k, Len(k) - 15, Len(k))) = 16
    BY DEF Str
<1>3. Len(PaddingLeft(k, 16)) < 16
    BY <1>1
<1>4. QED
    BY <1>2, <1>3

-----------------------------------------------------------------------------
(* The global pkey: once this round's key has been normalised, pkey is   *)
(* PaddingLeft of this round's key, never a stale value of an earlier    *)
(* round (Encrypt sets it, Decrypt sets it again, NextRound clears       *)
(* cipher before the key changes).                                       *)
PkeyCurrent == Normalised => pkey = PaddingLeft(key, 16)

TypeOK ==
    /\ key \in Str
    /\ plain \in Str

PIInv == TypeOK /\ PkeyCurrent /\ (decoded # Undefined => cipher # Undefined)

LEMMA InitPIInv == Init => PIInv
BY StrAssumption DEF Init, PIInv, TypeOK, PkeyCurrent, Normalised

LEMMA NextPIInv == PIInv /\ [Next]_vars => PIInv'
<1> SUFFICES ASSUME PIInv, [Next]_vars PROVE PIInv'
    OBVIOUS
<1>1. CASE Encrypt
    BY <1>1 DEF Encrypt, PIInv, TypeOK, PkeyCurrent, Normalised
<1>2. CASE Decrypt
    BY <1>2 DEF Decrypt, PIInv, TypeOK, PkeyCurrent, Normalised
<1>3. CASE NextRound
    BY <1>3, StrAssumption DEF NextRound, PIInv, TypeOK, PkeyCurrent, Normalised
<1>4. CASE UNCHANGED vars
    BY <1>4 DEF vars, PIInv, TypeOK, PkeyCurrent, Normalised
<1>5. QED
    BY <1>1, <1>2, <1>3, <1>4 DEF Next

(* In every reachable state, a key of at most 16 code units that         *)
(* AESEncrypto has normalised this round left pkey as exactly 16 units:  *)
(* the key, left-padded with '0' (crypto.js PaddingLeft and the global   *)
(* pkey it assigns).                                                      *)
THEOREM ShortKeyPadded == Spec => []ShortKeyPaddedUnits
<1>1. PIInv => ShortKeyPaddedUnits
    <2> SUFFICES ASSUME PIInv, Normalised, Len(key) <= 16
                 PROVE  /\ Len(pkey) = 16
                        /\ \A i \in 1..(16 - Len(key)) : pkey[i] = Zero
                        /\ \A i \in 1..Len(key) : pkey[16 - Len(key) + i] = key[i]
        BY DEF ShortKeyPaddedUnits
    <2>1. pkey = PaddingLeft(key, 16)
        BY DEF PIInv, PkeyCurrent
    <2>2. key \in Str
        BY DEF PIInv, TypeOK
    <2>3. /\ Len(PaddingLeft(key, 16)) = 16
          /\ \A i \in 1..(16 - Len(key)) : PaddingLeft(key, 16)[i] = Zero
          /\ \A i \in 1..Len(key) : PaddingLeft(key, 16)[16 - Len(key) + i] = key[i]
        BY <2>2, PaddingLeftShort
    <2>4. QED
        BY <2>1, <2>3
<1>2. QED
    BY <1>1, InitPIInv, NextPIInv, PTL DEF Spec

=============================================================================
