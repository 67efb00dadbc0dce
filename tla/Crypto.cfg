SPECIFICATION CryptoSpec
CONSTANTS
  Keys <- MCKeys
  KeySizes = {128, 192, 256, 160}
  Blocks <- MCBlocks
  Vectors <- MCVectors
  AES_BLOCKLEN = 3
  ByteBits = 2
  EncryptBlock <- MCEncrypt
  DecryptBlock <- MCDecrypt
  IVs <- MCIVs
  MaxLength = 8
  Plain <- MCPlain
  BlockSize = 8
  HashSize = 4
  WordBits = 5
  Chunks = {0, 1, 7, 8, 9, 17}
  MaxMessage = 34
  KeyLengths = {0, 3, 8, 9}
  ENTROPY_MAX_SOURCES = 2
  ENTROPY_MAX_LOOP = 3
  RESEED_INTERVAL = 2
  CounterBits = 7
  Counters = {0, 126}
  Thresholds = {128}
  Answers <- MCAnswers
  Lengths = {0, 256, 336, 337, 391, 392}
  OutputLengths = {17, 1024, 1025}
  Settings <- MCSettings
  MaxServed = 3
INVARIANTS BlocksExact StreamRecovered DigestExact FreshlySeeded EncryptsOnce BuffersHold
