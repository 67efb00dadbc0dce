---- MODULE CipherModes ----
(***************************************************************************)
(* The modes of operation around the block cipher: CBC, CFB128, CFB8 and   *)
(* CTR of PolarSSL's aes.c and CBC and CTR of tiny-AES-c.  A stream is     *)
(* encrypted with one context and decrypted with another of the same key   *)
(* and IV, in calls whose lengths each side chooses by itself; what lives  *)
(* from one call to the next (the chaining block, the counter, the rest of *)
(* the key stream and the place in it) is the contexts'.  The block cipher *)
(* is a permutation of the blocks (Aes has the real one).                  *)
(***************************************************************************)
EXTENDS Integers, Sequences, FiniteSets

CONSTANTS AES_BLOCKLEN,             \* bytes of a block (16)
          ByteBits,                 \* bits of a byte (8)
          EncryptBlock(_),          \* aes_crypt_ecb, Cipher with the key
          DecryptBlock(_),
          IVs,                      \* initial values of a stream
          MaxLength,                \* bytes of the longest stream
          Plain                     \* the text, at least MaxLength bytes

VARIABLES streamMode,             \* the mode of the stream
          sender, receiver,         \* their contexts
          cipher, text,             \* bytes encrypted and decrypted
          calls   \* tiny_ctr: lengths of the calls not yet decrypted
modeVars == <<streamMode, sender, receiver, cipher, text, calls>>

Modes == {"cbc", "cfb128", "cfb8", "ctr", "tiny_cbc", "tiny_ctr"}
ByteXor(a, b) ==
  LET bit(k) == ((a \div 2^k + b \div 2^k) % 2) * 2^k
      sum[k \in 0..ByteBits] == IF k = 0 THEN 0 ELSE sum[k - 1] + bit(k - 1)
  IN  sum[ByteBits]
BlockXor(x, y) == [i \in 1..AES_BLOCKLEN |-> ByteXor(x[i], y[i])]
Block(s, i) == SubSeq(s, i * AES_BLOCKLEN + 1, (i + 1) * AES_BLOCKLEN)

\* Run a step over the elements of a sequence, the context going from one to
\* the next and the outputs following each other.
Through(step(_, _), start, input) ==
  LET after[i \in 0..Len(input)] ==
        IF i = 0 THEN [ctx |-> start, out |-> <<>>]
        ELSE LET acc == after[i - 1]
                 new == step(acc.ctx, input[i])
             IN  [ctx |-> new.ctx, out |-> acc.out \o new.out]
  IN  after[Len(input)]
InBlocks(s) == [i \in 1..Len(s) \div AES_BLOCKLEN |-> Block(s, i - 1)]

\* A context: iv (chaining block or counter), off (place in the key stream or
\* in the feedback block), stream (the block of key stream in use).
NewContext(iv) == [iv |-> iv, off |-> 0, stream |-> <<>>]

\* ++ from the last byte up, as far as the bytes overflow to 0.
Increment(counter) ==
  LET carry(i) == \A j \in i + 1..AES_BLOCKLEN : counter[j] = 2^ByteBits - 1
  IN  [i \in 1..AES_BLOCKLEN |-> IF carry(i) THEN (counter[i] + 1) % 2^ByteBits ELSE counter[i]]

-----------------------------------------------------------------------------
aes_crypt_cbc(encrypt, ctx, input) ==
  LET block(c, b) == IF encrypt
                     THEN LET o == EncryptBlock(BlockXor(b, c.iv))
                          IN  [ctx |-> [c EXCEPT !.iv = o], out |-> o]
                     ELSE [ctx |-> [c EXCEPT !.iv = b], out |-> BlockXor(DecryptBlock(b), c.iv)]
  IN  Through(block, ctx, InBlocks(input))

aes_crypt_cfb128(encrypt, ctx, input) ==
  LET byte(c, b) ==
        LET iv == IF c.off = 0 THEN EncryptBlock(c.iv) ELSE c.iv
            o  == ByteXor(iv[c.off + 1], b)
        IN  [ctx |-> [c EXCEPT !.iv = [iv EXCEPT ![c.off + 1] = IF encrypt THEN o ELSE b],
                               !.off = (c.off + 1) % AES_BLOCKLEN],
             out |-> <<o>>]
  IN  Through(byte, ctx, input)

\* Variant: what comes out is fed back both ways.
aes_crypt_cfb8Out(encrypt, ctx, input) ==
  LET byte(c, b) ==
        LET o == ByteXor(EncryptBlock(c.iv)[1], b)
        IN  [ctx |-> [c EXCEPT !.iv = Append(Tail(c.iv), o)], out |-> <<o>>]
  IN  Through(byte, ctx, input)

aes_crypt_cfb8(encrypt, ctx, input) ==
  LET byte(c, b) ==
        LET o == ByteXor(EncryptBlock(c.iv)[1], b)
        IN  [ctx |-> [c EXCEPT !.iv = Append(Tail(c.iv), IF encrypt THEN o ELSE b)],
             out |-> <<o>>]
  IN  Through(byte, ctx, input)

aes_crypt_ctr(ctx, input) ==
  LET byte(c, b) ==
        LET next == IF c.off = 0
                    THEN [c EXCEPT !.stream = EncryptBlock(c.iv), !.iv = Increment(c.iv)]
                    ELSE c
        IN  [ctx |-> [next EXCEPT !.off = (c.off + 1) % AES_BLOCKLEN],
             out |-> <<ByteXor(next.stream[c.off + 1], b)>>]
  IN  Through(byte, ctx, input)

\* tiny-AES-c keeps only Iv: AES_CBC_encrypt_buffer chains from the buffer and
\* stores the last block, AES_CTR_xcrypt_buffer starts every call with a new
\* block of key stream.
AES_CBC_encrypt_buffer(ctx, input) ==
  LET block(c, b) == LET o == EncryptBlock(BlockXor(b, c)) IN [ctx |-> o, out |-> o]
      done == Through(block, ctx.iv, InBlocks(input))
  IN  [ctx |-> [ctx EXCEPT !.iv = done.ctx], out |-> done.out]
AES_CBC_decrypt_buffer(ctx, input) ==
  LET block(c, b) == [ctx |-> b, out |-> BlockXor(DecryptBlock(b), c)]
      done == Through(block, ctx.iv, InBlocks(input))
  IN  [ctx |-> [ctx EXCEPT !.iv = done.ctx], out |-> done.out]
AES_CTR_xcrypt_buffer(ctx, input) ==
  LET byte(c, b) ==
        LET next == IF c.bi = AES_BLOCKLEN
                    THEN [bi |-> 0, buffer |-> EncryptBlock(c.iv), iv |-> Increment(c.iv)]
                    ELSE c
        IN  [ctx |-> [next EXCEPT !.bi = @ + 1], out |-> <<ByteXor(b, next.buffer[next.bi + 1])>>]
      done == Through(byte, [bi |-> AES_BLOCKLEN, buffer |-> <<>>, iv |-> ctx.iv], input)
  IN  [ctx |-> [ctx EXCEPT !.iv = done.ctx.iv], out |-> done.out]

Crypt(encrypt, ctx, input) ==
  CASE streamMode = "cbc" -> aes_crypt_cbc(encrypt, ctx, input)
    [] streamMode = "cfb128" -> aes_crypt_cfb128(encrypt, ctx, input)
    [] streamMode = "cfb8" -> aes_crypt_cfb8(encrypt, ctx, input)
    [] streamMode = "ctr" -> aes_crypt_ctr(ctx, input)
    [] streamMode = "tiny_cbc" -> IF encrypt THEN AES_CBC_encrypt_buffer(ctx, input)
                                       ELSE AES_CBC_decrypt_buffer(ctx, input)
    [] streamMode = "tiny_ctr" -> AES_CTR_xcrypt_buffer(ctx, input)

\* CBC takes whole blocks only: aes_crypt_cbc refuses other lengths and
\* AES_CBC_*_buffer is documented for multiples of the block.
WholeBlocks(n) == streamMode \in {"cbc", "tiny_cbc"} => n % AES_BLOCKLEN = 0

-----------------------------------------------------------------------------
ModesInit == /\ streamMode = "none" /\ sender = <<>> /\ receiver = <<>>
             /\ cipher = <<>> /\ text = <<>> /\ calls = <<>>

\* Both sides set their key and the IV (AES_init_ctx_iv, aes_setkey_*).
OpenStream(m, iv) ==
  /\ streamMode = "none"
  /\ streamMode' = m
  /\ sender' = NewContext(iv) /\ receiver' = NewContext(iv)
  /\ UNCHANGED <<cipher, text, calls>>

EncryptPart(n) ==
  /\ streamMode # "none" /\ WholeBlocks(n)
  /\ LET done == Crypt(TRUE, sender, SubSeq(Plain, Len(cipher) + 1, Len(cipher) + n))
     IN  sender' = done.ctx /\ cipher' = cipher \o done.out
  /\ calls' = IF streamMode = "tiny_ctr" THEN Append(calls, n) ELSE calls
  /\ UNCHANGED <<streamMode, receiver, text>>

\* The receiver cuts the stream anew, except that a call of tiny-AES-c's CTR
\* is one message: what one call encrypted another one decrypts.
DecryptPart(n) ==
  /\ streamMode # "none" /\ WholeBlocks(n)
  /\ streamMode = "tiny_ctr" => n = Head(calls)
  /\ LET done == Crypt(FALSE, receiver, SubSeq(cipher, Len(text) + 1, Len(text) + n))
     IN  receiver' = done.ctx /\ text' = text \o done.out
  /\ calls' = IF streamMode = "tiny_ctr" THEN Tail(calls) ELSE calls
  /\ UNCHANGED <<streamMode, sender, cipher>>

CloseStream == streamMode # "none" /\ streamMode' = "none" /\ sender' = <<>> /\ receiver' = <<>>
               /\ cipher' = <<>> /\ text' = <<>> /\ calls' = <<>>

ModesNext == \/ \E m \in Modes, iv \in IVs : OpenStream(m, iv)
             \/ \E n \in 1..MaxLength - Len(cipher) : EncryptPart(n)
             \/ \E n \in 1..Len(cipher) - Len(text) : DecryptPart(n)
             \/ CloseStream

-----------------------------------------------------------------------------
\* However the two sides cut the stream, the receiver has the sender's bytes.
StreamRecovered == streamMode # "none" => text = SubSeq(Plain, 1, Len(text))
====
