------------------------------ MODULE MCCrypto ------------------------------
(***************************************************************************)
(* The symmetric primitives and the random numbers, one at a time: AES     *)
(* with the published vectors of tiny-AES-c's test, the modes on blocks of *)
(* three bytes of two bits under a permutation of the 64 blocks, SHA-512   *)
(* with blocks of eight bytes and words of five bits, and the entropy pool *)
(* and generator of a device.                                              *)
(***************************************************************************)
EXTENDS Aes, CipherModes, Hashing, RandomSource

(* tiny-AES-C test.c, 108-135 *)
MCPlainBlock == <<107, 193, 190, 226, 46, 64, 159, 150, 233, 61, 126, 17, 115, 147, 23, 42>>
Key128 == <<43, 126, 21, 22, 40, 174, 210, 166, 171, 247, 21, 136, 9, 207, 79, 60>>
Key192 == <<142, 115, 176, 247, 218, 14, 100, 82, 200, 16, 243, 43, 128, 144, 121, 229,
            98, 248, 234, 210, 82, 44, 107, 123>>
Key256 == <<96, 61, 235, 16, 21, 202, 113, 190, 43, 115, 174, 240, 133, 125, 119, 129,
            31, 53, 44, 7, 59, 97, 8, 215, 45, 152, 16, 163, 9, 20, 223, 244>>
Vector(keyBytes, result) == [key |-> keyBytes, block |-> MCPlainBlock, result |-> result]
MCVectors ==
  {Vector(Key128, <<58, 215, 123, 180, 13, 122, 54, 96, 168, 158, 202, 243, 36, 102, 239, 151>>),
   Vector(Key192, <<189, 51, 79, 29, 110, 69, 242, 95, 247, 18, 162, 20, 87, 31, 165, 204>>),
   Vector(Key256, <<243, 238, 209, 189, 181, 210, 160, 60, 6, 75, 90, 126, 61, 177, 129, 248>>)}
Long(keyBytes) == [i \in 1..32 |-> IF i <= Len(keyBytes) THEN keyBytes[i] ELSE 0]
MCKeys == {Long(Key128), Long(Key192), Key256, [i \in 1..32 |-> 0], [i \in 1..32 |-> (37 * i) % 256]}
MCBlocks == {MCPlainBlock, [i \in 1..16 |-> 255]}
            \cup {[i \in 1..16 |-> IF i = j THEN 128 ELSE 16 * j] : j \in 1..4}

Number(b)  == b[1] * 16 + b[2] * 4 + b[3]
ToBlock(n) == <<n \div 16, (n \div 4) % 4, n % 4>>
MCEncrypt(b) == ToBlock((29 * Number(b) + 22) % 64)
MCDecrypt(b) == ToBlock((53 * (Number(b) - 22)) % 64)
ASSUME Bijection == \A n \in 0..63 : MCDecrypt(MCEncrypt(ToBlock(n))) = ToBlock(n)
MCPlain == <<1, 3, 0, 2, 2, 1, 3, 3, 0, 1>>
MCIVs   == {<<0, 0, 0>>, <<3, 3, 2>>, <<1, 3, 3>>}

MCAnswers == {<<0, 64, 0, 64>>, <<64, Fails, 64, 64>>, <<64, 0, 0, 0>>}
Setting(r, len, i) == [resistance |-> r, entropy_len |-> len, interval |-> i]
MCSettings == {Setting(FALSE, 48, 2), Setting(TRUE, 48, 2), Setting(FALSE, 65, 2), Setting(FALSE, 48, 0)}

VARIABLE user     \* the primitive that is used in this behaviour
allVars == <<user, aesVars, modeVars, hashVars, randomVars>>
CryptoInit == /\ user \in {"aes", "modes", "hash", "random"}
              /\ AesInit /\ ModesInit /\ HashInit /\ RandomInit
CryptoNext ==
  \/ user = "aes"    /\ AesNext    /\ UNCHANGED <<user, modeVars, hashVars, randomVars>>
  \/ user = "modes"  /\ ModesNext  /\ UNCHANGED <<user, aesVars, hashVars, randomVars>>
  \/ user = "hash"   /\ HashNext   /\ UNCHANGED <<user, aesVars, modeVars, randomVars>>
  \/ user = "random" /\ RandomNext /\ UNCHANGED <<user, aesVars, modeVars, hashVars>>
CryptoSpec == CryptoInit /\ [][CryptoNext]_allVars
=============================================================================
