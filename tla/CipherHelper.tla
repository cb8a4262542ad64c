---------------------------- MODULE CipherHelper ----------------------------
(***************************************************************************)
(* The symmetric cipher helper, src/vanntool/static/js/crypto.js:          *)
(* PaddingLeft, AESEncrypto and AESDecrypto, and the encodings between     *)
(* them: UTF-8 (CryptoJS.enc.Utf8.parse, the algorithm stringToByte        *)
(* spells out), lowercase hex (the ciphertext AESEncrypto returns) and     *)
(* Base64 (how CryptoJS.AES.decrypt parses a string argument).             *)
(*                                                                         *)
(* A JavaScript string is the sequence of its UTF-16 code units (no        *)
(* surrogates here); bytes are 0..255.                                     *)
(*                                                                         *)
(* Data abstraction: the block cipher is the trusted library boundary.     *)
(* Encryption is modelled by what the helper relies on: PKCS7 padding to   *)
(* whole 16-byte blocks and a byte map that is injective for each key      *)
(* (Cipher).  Decryption inverts it on a ciphertext of the same key, and   *)
(* gives Garbage (a throw from Utf8.stringify, or unrelated text) on any   *)
(* other byte string.                                                      *)
(***************************************************************************)
EXTENDS JsDom

CONSTANTS
    Plaintexts,    \* strings passed as str
    Keys,          \* strings passed as key
    Garbage        \* what decrypting bytes that are no ciphertext gives

VARIABLES
    plain,         \* the str argument of this round
    key,           \* the key argument of this round
    pkey,          \* the implicit global PaddingLeft assigns
    cipher,        \* what AESEncrypto(plain, key) returned, or Undefined
    decoded        \* what AESDecrypto(cipher, key) returned, or Undefined

vars == <<plain, key, pkey, cipher, decoded>>

(* A string: a finite sequence of code units. *)
Str == Seq(Nat)

(* The arguments are JavaScript strings. *)
ASSUME StrAssumption == Keys \subseteq Str /\ Plaintexts \subseteq Str

Zero == 48     \* the code unit of '0'

(* Mutant: the padding array is one element short. *)
PaddingLeftOneShort(k, length) ==
    LET l == Len(k) IN
    CASE l < length - 1 -> [i \in 1..(length - l - 1) |-> Zero] \o k
      [] l > length     -> SubSeq(k, length + 1, l)
      [] OTHER          -> k

(* PaddingLeft(key, length): new Array(length - l + 1).join('0') is      *)
(* length - l zeros; pkey.slice(length) drops the first length units.     *)
PaddingLeft(k, length) ==
    LET l == Len(k) IN
    CASE l < length -> [i \in 1..(length - l) |-> Zero] \o k
      [] l > length -> SubSeq(k, length + 1, l)
      [] OTHER      -> k

(* The UTF-8 bytes of one code unit below 0x10000 (stringToByte's three  *)
(* lower branches; charCodeAt never reaches its first).                   *)
Utf8Unit(c) ==
    CASE c >= 2048 -> << 224 + c \div 4096, 128 + ((c \div 64) % 64), 128 + (c % 64) >>
      [] c >= 128  -> << 192 + c \div 64, 128 + (c % 64) >>
      [] OTHER     -> << c >>

(* CryptoJS.enc.Utf8.parse(s), as stringToByte(s). *)
stringToByte(s) == FlattenSeq([i \in DOMAIN s |-> Utf8Unit(s[i])])

(* PKCS7: 1 to 16 bytes of value n, up to a whole number of blocks. *)
Pkcs7(m) ==
    LET n == 16 - (Len(m) % 16) IN m \o [i \in 1..n |-> n]

(* The ciphertext bytes of the message bytes m under the key bytes k. *)
Cipher(k, m) ==
    LET pp == Pkcs7(m) IN
    [i \in DOMAIN pp |-> (pp[i] + k[((i - 1) % Len(k)) + 1]) % 256]

(* ciphertext.toString(CryptoJS.enc.Hex): two lowercase digits a byte. *)
HexDigit(d) == IF d < 10 THEN 48 + d ELSE 87 + d
Hex(b) == FlattenSeq([i \in DOMAIN b |-> << HexDigit(b[i] \div 16), HexDigit(b[i] % 16) >>])

(* The Base64 value of a character of the alphabet A-Z a-z 0-9 + /. *)
B64(c) ==
    CASE c \in 65..90  -> c - 65
      [] c \in 97..122 -> c - 71
      [] c \in 48..57  -> c + 4
      [] c = 43        -> 62
      [] c = 47        -> 63

(* CryptoJS.enc.Base64.parse of a string of whole 4-character groups. *)
Base64Parse(s) ==
    LET Group(g) == B64(s[4*g - 3]) * 262144 + B64(s[4*g - 2]) * 4096
                    + B64(s[4*g - 1]) * 64 + B64(s[4*g])
    IN  FlattenSeq([g \in 1..(Len(s) \div 4) |->
                      << Group(g) \div 65536, (Group(g) \div 256) % 256, Group(g) % 256 >>])

(* AESEncrypto(str, key). *)
AESEncrypto(str, k) ==
    IF Len(k) = 0 THEN << >>
    ELSE Hex(Cipher(stringToByte(PaddingLeft(k, 16)), stringToByte(str)))

(* AESDecrypto(encrypted, key): the string is parsed as Base64, the bytes *)
(* decrypted; an empty ciphertext decrypts to "".                        *)
AESDecrypto(enc, k) ==
    LET kb    == stringToByte(PaddingLeft(k, 16))
        bytes == Base64Parse(enc)
    IN  IF bytes = << >> THEN << >>
        ELSE IF \E p \in Plaintexts : Cipher(kb, stringToByte(p)) = bytes
             THEN CHOOSE p \in Plaintexts : Cipher(kb, stringToByte(p)) = bytes
             ELSE Garbage

(***************************************************************************)
(* A round: a caller encrypts str with key and later decrypts the result  *)
(* with the same key; pkey keeps the value of the last PaddingLeft.       *)
(***************************************************************************)
Init ==
    /\ plain \in Plaintexts
    /\ key \in Keys
    /\ pkey = Undefined
    /\ cipher = Undefined
    /\ decoded = Undefined

(* AESEncrypto: the empty-key test returns before PaddingLeft runs. *)
Encrypt ==
    /\ cipher = Undefined
    /\ cipher' = AESEncrypto(plain, key)
    /\ pkey' = IF Len(key) = 0 THEN pkey ELSE PaddingLeft(key, 16)
    /\ UNCHANGED <<plain, key, decoded>>

(* AESDecrypto has no empty-key test. *)
Decrypt ==
    /\ cipher # Undefined
    /\ decoded = Undefined
    /\ decoded' = AESDecrypto(cipher, key)
    /\ pkey' = PaddingLeft(key, 16)
    /\ UNCHANGED <<plain, key, cipher>>

(* The next round, with new arguments. *)
NextRound ==
    /\ decoded # Undefined
    /\ plain' \in Plaintexts
    /\ key' \in Keys
    /\ cipher' = Undefined
    /\ decoded' = Undefined
    /\ UNCHANGED pkey

Next == Encrypt \/ Decrypt \/ NextRound

Spec == Init /\ [][Next]_vars

-----------------------------------------------------------------------------
(***************************************************************************)
(* Properties of the key AESEncrypto has just normalised (pkey) and of    *)
(* the round trip.                                                        *)
(***************************************************************************)

(* This round's encryption normalised key (the empty key returns first). *)
Normalised == cipher # Undefined /\ Len(key) > 0

(* The AES key of spec 4.5 and 8: the key's bytes left-padded with '0'   *)
(* to exactly 16, or their trailing 16.                                   *)
SpecKey(k) ==
    LET b == stringToByte(k)
    IN  IF Len(b) <= 16 THEN [i \in 1..(16 - Len(b)) |-> Zero] \o b
        ELSE SubSeq(b, Len(b) - 15, Len(b))

(* A key of up to 16 ASCII characters is left-padded with '0' to the 16  *)
(* bytes spec 4.5 gives, in every round, whatever keys came before.      *)
AsciiKeyPadded ==
    (Normalised /\ Len(key) <= 16 /\ \A i \in DOMAIN key : key[i] < 128)
        => stringToByte(pkey) = SpecKey(key)

(* In every round, a key of at most 16 code units that AESEncrypto has  *)
(* normalised leaves pkey as exactly 16 units, '0's followed by the key: *)
(* PaddingLeft pads by the right count, and no earlier round's pkey       *)
(* survives into this one.                                                *)
ShortKeyPaddedUnits ==
    (Normalised /\ Len(key) <= 16) =>
        /\ Len(pkey) = 16
        /\ \A i \in 1..(16 - Len(key)) : pkey[i] = Zero
        /\ \A i \in 1..Len(key) : pkey[16 - Len(key) + i] = key[i]

(* Spec 4.5 and 8: every non-empty key AESEncrypto is given is normalised *)
(* to the spec's 16-byte key, whatever its length and characters.        *)
KeyNormalisation ==
    Normalised => stringToByte(pkey) = SpecKey(key)

(* Spec 8: decrypt(encrypt(p, k), k) = p for every non-empty key. *)
RoundTrip ==
    (decoded # Undefined /\ Len(key) > 0) => decoded = plain

=============================================================================
