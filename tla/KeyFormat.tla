----------------------------- MODULE KeyFormat ------------------------------
(***************************************************************************)
(* The secrets of the configuration (utils/aes.go, config/config.go): a    *)
(* text is padded to whole blocks, encrypted and written as hexadecimal,   *)
(* and read back the other way.  AES-CBC is external: a bijection of byte  *)
(* strings of the same length, so a cipher text is known by the bytes it   *)
(* decrypts to.                                                            *)
(***************************************************************************)
EXTENDS Naturals, Sequences

CONSTANTS
  BlockSize,  \* of the cipher (16)
  Byte        \* the bytes that are looked at

ASSUME KeyAssumption == BlockSize \in 1..255 /\ Byte \subseteq 0..255

\* No padding for whole blocks.
PaddingOf_None(n) == (BlockSize - (n % BlockSize)) % BlockSize

PaddingOf(n) == BlockSize - (n % BlockSize)

\* pkcs7Padding: a whole block when the text has whole blocks.
Padded(m) ==
  LET k == PaddingOf(Len(m)) IN
  [i \in 1..(Len(m) + k) |-> IF i <= Len(m) THEN m[i] ELSE k]

\* pkcs7UnPadding looks at nothing but the last byte.
Unpadded(m) == SubSeq(m, 1, Len(m) - m[Len(m)])

\* AesEncrypt; hex is whether the text is hexadecimal.
Encrypted(m) == [hex |-> TRUE, bytes |-> Padded(m)]

\* AesDecrypt: "fatal" is log.Fatalln, "panic" an index out of range.
Decrypted(c) ==
  CASE ~c.hex \/ Len(c.bytes) % BlockSize # 0 -> [ends |-> "fatal", text |-> <<>>]
    [] c.hex /\ c.bytes = <<>> -> [ends |-> "panic", text |-> <<>>]
    [] c.hex /\ Len(c.bytes) % BlockSize = 0 /\ c.bytes # <<>> ->
         IF c.bytes[Len(c.bytes)] > Len(c.bytes)
           THEN [ends |-> "panic", text |-> <<>>]
           ELSE [ends |-> "ok", text |-> Unpadded(c.bytes)]

=============================================================================
