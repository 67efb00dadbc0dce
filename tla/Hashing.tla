---- MODULE Hashing ----
(***************************************************************************)
(* SHA-512/384 and HMAC of PolarSSL's sha512.c around the compression      *)
(* function: what sha512_update buffers, when a block is processed, the    *)
(* padding and the length, whatever the lengths of the calls.              *)
(* sha512_process is free: the state is the sequence of blocks it was      *)
(* given, so two digests are equal exactly when the blocks are.  A byte is *)
(* a record: [v] a value, [hash, at] a byte of a digest, [pad, of] a byte  *)
(* under the inner or outer pad of HMAC.                                   *)
(***************************************************************************)
EXTENDS Integers, Sequences

CONSTANTS BlockSize,    \* 128
          HashSize,     \* 64; 48 of them are SHA-384's
          WordBits,     \* bits of total[0], total[1] (64)
          Chunks,       \* lengths of the calls of update
          MaxMessage,   \* bytes of the longest message
          KeyLengths    \* of the HMAC keys

VARIABLES hash,     \* the sha512_context
          message,  \* the bytes since starts, hmac_starts or hmac_reset
          hmacKey,  \* of the HMAC in progress, or NoKey
          digest    \* of the last finish

hashVars == <<hash, message, hmacKey, digest>>

LengthSize == 2      \* bytes of the length at the end, one per word (16)
NoKey == <<"none">>
NoDigest == <<>>
Zeros(n) == [i \in 1..n |-> [v |-> 0]]
From(s, i) == SubSeq(s, i, Len(s))

-----------------------------------------------------------------------------
\* The buffer keeps what it held.
sha512_starts(ctx, is384) ==
  [ctx EXCEPT !.total = <<0, 0>>, !.state = <<is384>>, !.is384 = is384]

sha512_process(ctx, data) == [ctx EXCEPT !.state = Append(@, data)]

\* memcpy into the buffer from left on.
Copied(ctx, left, input) ==
  [ctx EXCEPT !.buffer = [i \in 1..BlockSize |->
     IF i > left /\ i <= left + Len(input) THEN input[i - left] ELSE @[i]]]

sha512_update(ctx, input) ==
  LET ilen == Len(input)
      left == ctx.total[1] % BlockSize
      fill == BlockSize - left
      low  == (ctx.total[1] + ilen) % 2^WordBits
      counted == [ctx EXCEPT !.total = <<low, IF low < ilen THEN (@[2] + 1) % 2^WordBits ELSE @[2]>>]
      first == IF left > 0 /\ ilen >= fill THEN fill ELSE 0
      filled == IF first = 0 THEN counted
                ELSE LET full == Copied(counted, left, SubSeq(input, 1, fill))
                     IN  sha512_process(full, full.buffer)
      whole == (ilen - first) \div BlockSize
      blocks[k \in 0..whole] ==
        IF k = 0 THEN filled
        ELSE sha512_process(blocks[k - 1],
               SubSeq(input, first + (k - 1) * BlockSize + 1, first + k * BlockSize))
      at == IF first > 0 THEN 0 ELSE left
  IN  IF ilen = 0 THEN ctx
      ELSE IF left > 0 /\ ilen < fill THEN Copied(counted, left, input)
      ELSE Copied(blocks[whole], at, From(input, first + whole * BlockSize + 1))

sha512_padding == <<[v |-> 128]>> \o Zeros(BlockSize - 1)

\* Variant: the length fits next to a block that leaves no room for the 0x80.
PaddingShort(last) ==
  LET room == BlockSize - LengthSize
  IN  IF last <= room THEN room - last ELSE room + BlockSize - last
\* The padding leaves just the room for the length in a block.
PaddingLength(last) ==
  LET room == BlockSize - LengthSize
  IN  IF last < room THEN room - last ELSE room + BlockSize - last

\* [ctx, output]: the context after the digest, and the digest.
sha512_finish(ctx) ==
  LET high == (ctx.total[1] \div 2^(WordBits - 3) + 8 * ctx.total[2]) % 2^WordBits
      low  == (8 * ctx.total[1]) % 2^WordBits
      padn == PaddingLength(ctx.total[1] % BlockSize)
      padded == sha512_update(ctx, SubSeq(sha512_padding, 1, padn))
      after  == sha512_update(padded, <<[v |-> high], [v |-> low]>>)
      size == IF ctx.is384 THEN (3 * HashSize) \div 4 ELSE HashSize
  IN  [ctx |-> after, output |-> [i \in 1..size |-> [hash |-> after.state, at |-> i]]]

sha512(input, is384, ctx) == sha512_finish(sha512_update(sha512_starts(ctx, is384), input)).output

Padded(byte, pad) == [pad |-> pad, of |-> byte]
sha512_hmac_starts(ctx, k, is384) ==
  LET short == IF Len(k) > BlockSize THEN sha512(k, is384, ctx) ELSE k
      full  == short \o Zeros(BlockSize - Len(short))
      keyed == [ctx EXCEPT !.ipad = [i \in 1..BlockSize |-> Padded(full[i], "ipad")],
                           !.opad = [i \in 1..BlockSize |-> Padded(full[i], "opad")]]
  IN  sha512_update(sha512_starts(keyed, is384), keyed.ipad)

sha512_hmac_finish(ctx) ==
  LET inner == sha512_finish(ctx)
      outer == sha512_update(sha512_starts(inner.ctx, ctx.is384), ctx.opad)
  IN  sha512_finish(sha512_update(outer, inner.output))

sha512_hmac_reset(ctx) == sha512_update(sha512_starts(ctx, ctx.is384), ctx.ipad)

-----------------------------------------------------------------------------
Stale == [i \in 1..BlockSize |-> [v |-> -1]]
HashInit == /\ hash = [total |-> <<0, 0>>, state |-> <<>>, buffer |-> Stale,
                       ipad |-> Stale, opad |-> Stale, is384 |-> FALSE]
            /\ message = <<>> /\ hmacKey = NoKey /\ digest = NoDigest

\* The bytes of a message, or of a key, are told apart by their number.
Bytes(first, n) == [i \in 1..n |-> [v |-> first + i]]

Starts(is384) == /\ hash.state = <<>>
                 /\ hash' = sha512_starts(hash, is384)
                 /\ UNCHANGED <<message, hmacKey, digest>>
HmacStarts(n, is384) == /\ hash.state = <<>>
                        /\ hmacKey' = Bytes(1000, n)
                        /\ hash' = sha512_hmac_starts(hash, hmacKey', is384)
                        /\ UNCHANGED <<message, digest>>
HashUpdate(n) == /\ hash.state # <<>> /\ digest = NoDigest
             /\ Len(message) + n <= MaxMessage
             /\ hash' = sha512_update(hash, Bytes(Len(message), n))
             /\ message' = message \o Bytes(Len(message), n)
             /\ UNCHANGED <<hmacKey, digest>>
Finish == /\ hash.state # <<>> /\ digest = NoDigest
          /\ LET done == IF hmacKey = NoKey THEN sha512_finish(hash) ELSE sha512_hmac_finish(hash)
             IN  hash' = done.ctx /\ digest' = done.output
          /\ UNCHANGED <<message, hmacKey>>
HmacReset == /\ digest # NoDigest /\ hmacKey # NoKey
             /\ hash' = sha512_hmac_reset(hash)
             /\ message' = <<>> /\ digest' = NoDigest
             /\ UNCHANGED hmacKey
Discard == /\ digest # NoDigest
           /\ hash' = [hash EXCEPT !.state = <<>>]
           /\ message' = <<>> /\ hmacKey' = NoKey /\ digest' = NoDigest

HashNext == \/ \E is384 \in BOOLEAN : Starts(is384) \/ \E n \in KeyLengths : HmacStarts(n, is384)
            \/ \E n \in Chunks : HashUpdate(n)
            \/ Finish \/ HmacReset \/ Discard

-----------------------------------------------------------------------------
\* The standard's padding: a bit 1, zeros, the number of bits, in blocks.
Digest(bytes, is384) ==
  LET n == Len(bytes)
      zeros == (2 * BlockSize - LengthSize - 1 - (n % BlockSize)) % BlockSize
      bits == [i \in 1..2 |-> [v |-> ((8 * n) \div 2^(WordBits * (2 - i))) % 2^WordBits]]
      all == bytes \o <<[v |-> 128]>> \o Zeros(zeros) \o bits
      state == <<is384>> \o [b \in 1..Len(all) \div BlockSize |->
                               SubSeq(all, (b - 1) * BlockSize + 1, b * BlockSize)]
  IN  [i \in 1..IF is384 THEN (3 * HashSize) \div 4 ELSE HashSize |->
         [hash |-> state, at |-> i]]

Hmac(k, bytes, is384) ==
  LET short == IF Len(k) > BlockSize THEN Digest(k, is384) ELSE k
      full == short \o Zeros(BlockSize - Len(short))
      under(pad) == [i \in 1..BlockSize |-> Padded(full[i], pad)]
  IN  Digest(under("opad") \o Digest(under("ipad") \o bytes, is384), is384)

\* A digest is that of the message, however update was called, up to lengths
\* that carry from total[0] into total[1]; an HMAC context gives it again for
\* another message after a reset.
DigestExact ==
  digest # NoDigest =>
    digest = IF hmacKey = NoKey THEN Digest(message, hash.is384)
                            ELSE Hmac(hmacKey, message, hash.is384)
====
