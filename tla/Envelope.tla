------------------------------ MODULE Envelope ------------------------------
(***************************************************************************)
(* The client's encryption (custom.js): "v2:" and the bytes of salt, iv,   *)
(* ciphertext and tag, cut up again for decryption.  A byte is a token     *)
(* that tells where it comes from; deriving a key is injective; AES-GCM    *)
(* decrypts, with the key and the iv it was given to encrypt, what has not *)
(* been changed, and nothing else.                                         *)
(***************************************************************************)
EXTENDS Integers, Sequences

CONSTANTS
    SaltLen, IvLen,  \* 16 and 12 in the code
    Chunk,           \* 8192 in the code
    Null             \* decryption failed

ASSUME Lengths == SaltLen \in Nat \ {0} /\ IvLen \in Nat \ {0} /\ Chunk \in Nat \ {0}

Salt == [i \in 1 .. SaltLen |-> <<"salt", i>>]
Iv   == [i \in 1 .. IvLen |-> <<"iv", i>>]

deriveKey(password, salt) == <<password, salt>>

GcmEncrypt(key, iv, text) ==
    [i \in 1 .. Len(text) |-> <<key, iv, text[i]>>] \o << <<key, iv, text>> >>
GcmDecrypt(key, iv, bytes) ==
    IF bytes = << >> THEN Null
    ELSE LET tag == bytes[Len(bytes)]
         IN  IF bytes = GcmEncrypt(key, iv, tag[3]) THEN tag[3] ELSE Null

(* The bytes Chunk by Chunk: copied[n] is what n turns of the loop yield.  *)
uint8ToBase64(bytes) ==
    LET turns == (Len(bytes) + Chunk - 1) \div Chunk
        upTo(n) == IF n * Chunk < Len(bytes) THEN n * Chunk ELSE Len(bytes)
        copied[n \in 0 .. turns] ==
            IF n = 0 THEN << >>
            ELSE copied[n - 1] \o SubSeq(bytes, (n - 1) * Chunk + 1, upTo(n))
    IN  copied[turns]

Encoded(bytes) == [prefix |-> "v2:", base64 |-> uint8ToBase64(bytes)]
Clear(text)    == [prefix |-> "", base64 |-> text]

aesEncrypt(text, password) ==
    Encoded(Salt \o Iv \o GcmEncrypt(deriveKey(password, Salt), Iv, text))

(* slice(0, 16), slice(16, 28), slice(28) *)
IvOfShifted(raw) == SubSeq(raw, SaltLen, SaltLen + IvLen - 1)  \* mutant: cut one byte early
IvOf(raw) == SubSeq(raw, SaltLen + 1, SaltLen + IvLen)
aesDecrypt(paste, password) ==
    LET raw  == paste.base64
        salt == SubSeq(raw, 1, SaltLen)
        rest == SubSeq(raw, SaltLen + IvLen + 1, Len(raw))
    IN  IF paste.prefix # "v2:" THEN Null
        ELSE GcmDecrypt(deriveKey(password, salt), IvOf(raw), rest)
=============================================================================
