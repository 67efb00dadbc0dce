---- MODULE Aes ----
(***************************************************************************)
(* The two AES implementations the program links: the table-driven one of  *)
(* PolarSSL (aes.c; ctr_drbg.c runs on it) and tiny-AES-c (ClientSmoke     *)
(* encrypts messages with it, built for 256-bit keys).  A byte is a        *)
(* number, a 32-bit word (or a column of the state) the sequence of its    *)
(* four bytes from the low one up, a block four words, a round key four    *)
(* words of the expanded key.                                              *)
(***************************************************************************)
EXTENDS Integers, Sequences, TLC, Loops

Byte == 0..255
XorByte == [a \in Byte |-> [b \in Byte |->
   LET bit(k) == ((a \div 2^k + b \div 2^k) % 2) * 2^k
   IN  bit(0) + bit(1) + bit(2) + bit(3) + bit(4) + bit(5) + bit(6) + bit(7)]]
\* A word or a block from its four components.
Four(f(_)) == <<f(1), f(2), f(3), f(4)>>
Xor(x, y) == Four(LAMBDA j : XorByte[x[j]][y[j]])
XorWords(x, y) == Four(LAMBDA i : Xor(x[i], y[i]))
Words(bytes) == [i \in 1..Len(bytes) \div 4 |-> SubSeq(bytes, 4 * i - 3, 4 * i)]
RoundKey(rk, r) == SubSeq(rk, 4 * r + 1, 4 * r + 4)

-----------------------------------------------------------------------------
(* PolarSSL *)
XTIME(x) == XorByte[(2 * x) % 256][IF x >= 128 THEN 27 ELSE 0]

\* aes_gen_tables: powers of 3 (a later entry of log overwrites an earlier one).
pow == For(1, 255, <<1>>, LAMBDA p, i : Append(p, XorByte[p[i]][XTIME(p[i])]))
log == [x \in 1..255 |-> CHOOSE i \in Byte :
          pow[i + 1] = x /\ \A j \in i + 1..255 : pow[j + 1] # x]
MUL(x, y) == IF x = 0 \/ y = 0 THEN 0 ELSE pow[((log[x] + log[y]) % 255) + 1]
RCON == For(1, 9, <<1>>, LAMBDA r, i : Append(r, XTIME(r[i])))

ROTL8(w) == <<w[4], w[1], w[2], w[3]>>
FSb == LET rot(x) == ((2 * x) % 256) + x \div 128
           affine(x) == LET r1 == rot(x) r2 == rot(r1) r3 == rot(r2) r4 == rot(r3)
                        IN XorByte[XorByte[XorByte[x][r1]][XorByte[r2][r3]]][XorByte[r4][99]]
       IN  [i \in Byte |-> IF i = 0 THEN 99 ELSE affine(pow[256 - log[i]])]
RSb == [x \in Byte |-> CHOOSE i \in Byte : FSb[i] = x]

\* FT[k] and RT[k]: substitution and column mixing of byte k of a word at once.
FT == LET t0 == [i \in Byte |-> LET x == FSb[i] y == XTIME(FSb[i])
                                IN <<y, x, x, XorByte[x][y]>>]
          t1 == [i \in Byte |-> ROTL8(t0[i])]
          t2 == [i \in Byte |-> ROTL8(t1[i])]
      IN  <<t0, t1, t2, [i \in Byte |-> ROTL8(t2[i])]>>
RT == LET t0 == [i \in Byte |-> LET x == RSb[i]
                                IN <<MUL(14, x), MUL(9, x), MUL(13, x), MUL(11, x)>>]
          t1 == [i \in Byte |-> ROTL8(t0[i])]
          t2 == [i \in Byte |-> ROTL8(t1[i])]
      IN  <<t0, t1, t2, [i \in Byte |-> ROTL8(t2[i])]>>

\* The static tables (T below), filled when a key is set for the first time.
aes_gen_tables == [FSb |-> FSb, RSb |-> RSb, FT |-> FT, RT |-> RT, RCON |-> RCON]

INVALID_KEY_LENGTH == -32
AES_ENCRYPT == 1
AES_DECRYPT == 0
Rounds(keysize) == CASE keysize = 128 -> 10 [] keysize = 192 -> 12 [] keysize = 256 -> 14

aes_setkey_enc(T, key, keysize) ==
  IF keysize \notin {128, 192, 256} THEN [ret |-> INVALID_KEY_LENGTH]
  ELSE LET nk == keysize \div 32
           nr == Rounds(keysize)
           sub(w) == Four(LAMBDA j : T.FSb[w[j]])
           next(rk, i) ==  \* word i, from 0
             LET last == rk[i]
                 turned == IF i % nk = 0
                           THEN Xor(sub(<<last[2], last[3], last[4], last[1]>>),
                                    <<T.RCON[i \div nk], 0, 0, 0>>)
                           ELSE IF nk = 8 /\ i % 8 = 4 THEN sub(last) ELSE last
             IN  Append(rk, Xor(rk[i + 1 - nk], turned))
       IN  [ret |-> 0, nr |-> nr, rk |-> For(nk, 4 * nr + 3, Words(key), next)]

\* The equivalent inverse cipher: the rounds reversed, the inner ones unmixed.
aes_setkey_dec(T, key, keysize) ==
  LET cty == aes_setkey_enc(T, key, keysize)
      unmix(w) == Xor(Xor(T.RT[1][T.FSb[w[1]]], T.RT[2][T.FSb[w[2]]]),
                      Xor(T.RT[3][T.FSb[w[3]]], T.RT[4][T.FSb[w[4]]]))
      round(r) == LET sk == RoundKey(cty.rk, cty.nr - r)
                  IN  IF r \in {0, cty.nr} THEN sk ELSE Four(LAMBDA j : unmix(sk[j]))
  IN  IF cty.ret # 0 THEN cty
      ELSE [cty EXCEPT !.rk = [i \in 1..4 * (cty.nr + 1) |-> round((i - 1) \div 4)[((i - 1) % 4) + 1]]]

\* Variant: decryption shifts the rows the same way.
LaneForward(Y, j, k, dir) == Y[((j + k - 2) % 4) + 1][k]
\* Word j of a round takes byte k from the word k places after (or before) it.
Lane(Y, j, k, dir) == Y[((j - 1 + dir * (k - 1)) % 4) + 1][k]
AES_FROUND(T, rk, Y) == Four(LAMBDA j :
   Xor(rk[j], Xor(Xor(T.FT[1][Lane(Y, j, 1, 1)], T.FT[2][Lane(Y, j, 2, 1)]),
                  Xor(T.FT[3][Lane(Y, j, 3, 1)], T.FT[4][Lane(Y, j, 4, 1)]))))
AES_RROUND(T, rk, Y) == Four(LAMBDA j :
   Xor(rk[j], Xor(Xor(T.RT[1][Lane(Y, j, 1, -1)], T.RT[2][Lane(Y, j, 2, -1)]),
                  Xor(T.RT[3][Lane(Y, j, 3, -1)], T.RT[4][Lane(Y, j, 4, -1)]))))

aes_crypt_ecb(T, ctx, mode, input) ==
  LET round(Y, r) == IF mode = AES_DECRYPT THEN AES_RROUND(T, RoundKey(ctx.rk, r), Y)
                                           ELSE AES_FROUND(T, RoundKey(ctx.rk, r), Y)
      Y == For(1, ctx.nr - 1, XorWords(input, RoundKey(ctx.rk, 0)), round)
      last == Four(LAMBDA j : Four(LAMBDA k : IF mode = AES_DECRYPT
                                              THEN T.RSb[Lane(Y, j, k, -1)]
                                              ELSE T.FSb[Lane(Y, j, k, 1)]))
  IN  XorWords(last, RoundKey(ctx.rk, ctx.nr))

-----------------------------------------------------------------------------
(* tiny-AES-c *)
Nk == 8
Nr == 14
sbox == <<
  99, 124, 119, 123, 242, 107, 111, 197, 48, 1, 103, 43, 254, 215, 171, 118, 202, 130, 201, 125, 250, 89, 71, 240,
  173, 212, 162, 175, 156, 164, 114, 192, 183, 253, 147, 38, 54, 63, 247, 204, 52, 165, 229, 241, 113, 216, 49, 21,
  4, 199, 35, 195, 24, 150, 5, 154, 7, 18, 128, 226, 235, 39, 178, 117, 9, 131, 44, 26, 27, 110, 90, 160,
  82, 59, 214, 179, 41, 227, 47, 132, 83, 209, 0, 237, 32, 252, 177, 91, 106, 203, 190, 57, 74, 76, 88, 207,
  208, 239, 170, 251, 67, 77, 51, 133, 69, 249, 2, 127, 80, 60, 159, 168, 81, 163, 64, 143, 146, 157, 56, 245,
  188, 182, 218, 33, 16, 255, 243, 210, 205, 12, 19, 236, 95, 151, 68, 23, 196, 167, 126, 61, 100, 93, 25, 115,
  96, 129, 79, 220, 34, 42, 144, 136, 70, 238, 184, 20, 222, 94, 11, 219, 224, 50, 58, 10, 73, 6, 36, 92,
  194, 211, 172, 98, 145, 149, 228, 121, 231, 200, 55, 109, 141, 213, 78, 169, 108, 86, 244, 234, 101, 122, 174, 8,
  186, 120, 37, 46, 28, 166, 180, 198, 232, 221, 116, 31, 75, 189, 139, 138, 112, 62, 181, 102, 72, 3, 246, 14,
  97, 53, 87, 185, 134, 193, 29, 158, 225, 248, 152, 17, 105, 217, 142, 148, 155, 30, 135, 233, 206, 85, 40, 223,
  140, 161, 137, 13, 191, 230, 66, 104, 65, 153, 45, 15, 176, 84, 187, 22>>
rsbox == <<
  82, 9, 106, 213, 48, 54, 165, 56, 191, 64, 163, 158, 129, 243, 215, 251, 124, 227, 57, 130, 155, 47, 255, 135,
  52, 142, 67, 68, 196, 222, 233, 203, 84, 123, 148, 50, 166, 194, 35, 61, 238, 76, 149, 11, 66, 250, 195, 78,
  8, 46, 161, 102, 40, 217, 36, 178, 118, 91, 162, 73, 109, 139, 209, 37, 114, 248, 246, 100, 134, 104, 152, 22,
  212, 164, 92, 204, 93, 101, 182, 146, 108, 112, 72, 80, 253, 237, 185, 218, 94, 21, 70, 87, 167, 141, 157, 132,
  144, 216, 171, 0, 140, 188, 211, 10, 247, 228, 88, 5, 184, 179, 69, 6, 208, 44, 30, 143, 202, 63, 15, 2,
  193, 175, 189, 3, 1, 19, 138, 107, 58, 145, 17, 65, 79, 103, 220, 234, 151, 242, 207, 206, 240, 180, 230, 115,
  150, 172, 116, 34, 231, 173, 53, 133, 226, 249, 55, 232, 28, 117, 223, 110, 71, 241, 26, 113, 29, 41, 197, 137,
  111, 183, 98, 14, 170, 24, 190, 27, 252, 86, 62, 75, 198, 210, 121, 32, 154, 219, 192, 254, 120, 205, 90, 244,
  31, 221, 168, 51, 136, 7, 199, 49, 177, 18, 16, 89, 39, 128, 236, 95, 96, 81, 127, 169, 25, 181, 74, 13,
  45, 229, 122, 159, 147, 201, 156, 239, 160, 224, 59, 77, 174, 42, 245, 176, 200, 235, 187, 60, 131, 83, 153, 97,
  23, 43, 4, 126, 186, 119, 214, 38, 225, 105, 20, 99, 85, 33, 12, 125>>
Rcon == <<141, 1, 2, 4, 8, 16, 32, 64, 128, 27, 54>>
getSBoxValue(num) == sbox[num + 1]
getSBoxInvert(num) == rsbox[num + 1]

KeyExpansion(Key) ==
  LET sub(t) == Four(LAMBDA j : getSBoxValue(t[j]))
      next(rk, i) ==
        LET t == rk[i]
            tempa == IF i % Nk = 0
                     THEN LET s == sub(<<t[2], t[3], t[4], t[1]>>)
                          IN  [s EXCEPT ![1] = XorByte[@][Rcon[i \div Nk + 1]]]
                     ELSE IF i % Nk = 4 THEN sub(t) ELSE t
        IN  Append(rk, Xor(rk[i - Nk + 1], tempa))
  IN  For(Nk, 4 * (Nr + 1) - 1, Words(Key), next)

\* The state is indexed [column][row].
AddRoundKey(round, state, rk) == XorWords(state, RoundKey(rk, round))
SubBytes(state) == Four(LAMBDA i : Four(LAMBDA j : getSBoxValue(state[i][j])))
InvSubBytes(state) == Four(LAMBDA i : Four(LAMBDA j : getSBoxInvert(state[i][j])))
ShiftRows(state) == Four(LAMBDA i : Four(LAMBDA j : state[((i + j - 2) % 4) + 1][j]))
InvShiftRows(state) == Four(LAMBDA i : Four(LAMBDA j : state[((i - j) % 4) + 1][j]))

xtime(x) == XorByte[(2 * x) % 256][((x \div 128) % 2) * 27]
MixColumns(state) ==
  Four(LAMBDA i :
     LET s == state[i]
         Tmp == XorByte[XorByte[s[1]][s[2]]][XorByte[s[3]][s[4]]]
     IN  Four(LAMBDA j : XorByte[s[j]][XorByte[xtime(XorByte[s[j]][s[(j % 4) + 1]])][Tmp]]))

Multiply(x, y) ==
  For(0, 4, [sum |-> 0, x |-> x],
      LAMBDA acc, k : [sum |-> IF (y \div 2^k) % 2 = 1 THEN XorByte[acc.sum][acc.x] ELSE acc.sum,
                       x |-> xtime(acc.x)]).sum
Multiples == [y \in {9, 11, 13, 14} |-> [x \in Byte |-> Multiply(x, y)]]
InvMixColumns(state) ==
  Four(LAMBDA i :
     LET s == state[i]
         row(a, b, c, d) == XorByte[XorByte[Multiples[a][s[1]]][Multiples[b][s[2]]]]
                                   [XorByte[Multiples[c][s[3]]][Multiples[d][s[4]]]]
     IN  <<row(14, 11, 13, 9), row(9, 14, 11, 13), row(13, 9, 14, 11), row(11, 13, 9, 14)>>)

Cipher(state, rk) ==
  LET round(s, r) == AddRoundKey(r, MixColumns(ShiftRows(SubBytes(s))), rk)
      s == For(1, Nr - 1, AddRoundKey(0, state, rk), round)
  IN  AddRoundKey(Nr, ShiftRows(SubBytes(s)), rk)

InvCipher(state, rk) ==
  LET round(s, i) == InvMixColumns(AddRoundKey(Nr - i, InvSubBytes(InvShiftRows(s)), rk))
      s == For(1, Nr - 1, AddRoundKey(Nr, state, rk), round)
  IN  AddRoundKey(0, InvSubBytes(InvShiftRows(s)), rk)

(***************************************************************************)
(* Calls of the two AES implementations: a key is set in both, blocks are  *)
(* then encrypted and decrypted with the contexts.                         *)
(***************************************************************************)

CONSTANTS Keys,      \* the keys given to the set-key functions, 32 bytes each
          KeySizes,  \* the sizes asked for, in bits
          Blocks,    \* the blocks, 16 bytes each
          Vectors    \* published results: [key, keysize, block, result]

VARIABLES tables,    \* the tables of aes.c, or NoTables: aes_init_done is 0
          enc, dec,  \* contexts of aes_setkey_enc and aes_setkey_dec
          tinyKeys,  \* the round keys of tiny-AES-c
          lastBlock  \* the call made last: its input and the outputs
aesVars == <<tables, enc, dec, tinyKeys, lastBlock>>

NoCall == [op |-> "none"]
NoTables == <<>>
AesInit == tables = NoTables /\ enc = NoCall /\ dec = NoCall /\ tinyKeys = NoCall /\ lastBlock = NoCall

\* aes_setkey_enc, aes_setkey_dec and AES_init_ctx with one key.
SetKey(key, keysize) ==
  /\ enc = NoCall
  /\ tables' = IF tables = NoTables THEN aes_gen_tables ELSE tables
  /\ LET used == SubSeq(key, 1, (IF keysize \in {128, 192} THEN keysize ELSE 256) \div 8)
     IN  /\ enc' = [key |-> used, size |-> keysize] @@ aes_setkey_enc(tables', used, keysize)
         /\ dec' = aes_setkey_dec(tables', used, keysize)
         /\ tinyKeys' = IF keysize = 256 THEN KeyExpansion(used) ELSE NoCall
  /\ UNCHANGED lastBlock

\* aes_crypt_ecb both ways, AES_ECB_encrypt and AES_ECB_decrypt.
CryptBlock(bytes) ==
  /\ enc # NoCall /\ enc.ret = 0 /\ lastBlock = NoCall
  /\ LET in  == Words(bytes)
         out == aes_crypt_ecb(tables, enc, AES_ENCRYPT, in)
     IN  lastBlock' = [in |-> in, out |-> out, back |-> aes_crypt_ecb(tables, dec, AES_DECRYPT, out),
                   tiny |-> IF tinyKeys = NoCall THEN out ELSE Cipher(in, tinyKeys),
                   tinyBack |-> IF tinyKeys = NoCall THEN in ELSE InvCipher(out, tinyKeys)]
  /\ UNCHANGED <<tables, enc, dec, tinyKeys>>

AesReturned ==
  /\ enc # NoCall
  /\ enc' = NoCall /\ dec' = NoCall /\ tinyKeys' = NoCall /\ lastBlock' = NoCall
  /\ UNCHANGED tables

AesNext == \/ \E key \in Keys, keysize \in KeySizes : SetKey(key, keysize)
           \/ \E bytes \in Blocks : CryptBlock(bytes)
           \/ AesReturned

-----------------------------------------------------------------------------
\* The table-driven rounds and the byte-wise rounds are the same cipher, each
\* decryption undoes it, and both agree with the vectors of the tests.
BlocksExact ==
  /\ enc # NoCall => (enc.ret = 0 <=> enc.size \in {128, 192, 256}) /\ dec.ret = enc.ret
  /\ lastBlock # NoCall =>
       /\ lastBlock.back = lastBlock.in /\ lastBlock.tinyBack = lastBlock.in
       /\ lastBlock.tiny = lastBlock.out
       /\ \A v \in Vectors : (v.key = enc.key /\ Words(v.block) = lastBlock.in)
                               => Words(v.result) = lastBlock.out
====
