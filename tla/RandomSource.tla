---- MODULE RandomSource ----
(***************************************************************************)
(* The random numbers of a device: DeviceConfig (config.h) owns an entropy *)
(* pool (entropy.c, entropy_poll.c) and a CTR_DRBG over AES-256            *)
(* (ctr_drbg.c) seeded from it; the key exchanges draw their secrets from  *)
(* it.  The hash of the pool and the encryption of counters are free: the  *)
(* pool is how many bytes of each source it has digested since the last    *)
(* seed, a key is the list of the counters encrypted under it, and the     *)
(* counter after a change of key is any.                                   *)
(***************************************************************************)
EXTENDS Integers, Sequences, FiniteSets

CONSTANTS ENTROPY_MAX_SOURCES, ENTROPY_MAX_LOOP,  \* 20, 256
          RESEED_INTERVAL,                         \* 10000
          CounterBits,        \* bits of the counter block (128)
          Counters,           \* values a new counter takes
          Thresholds,         \* of sources the application adds
          Answers,            \* bytes (or Fails) they give, poll by poll
          Lengths, OutputLengths,  \* of additional data, of requests
          Settings,           \* [resistance, entropy_len, interval] to set
          MaxServed           \* requests between reseeds that are counted

VARIABLES pool,     \* the entropy_context
          drbg,     \* the ctr_drbg_context
          available,  \* DeviceConfig::_random_inited
          reply     \* what the last call did
randomVars == <<pool, drbg, available, reply>>

Fails == -1
BLOCKSIZE == 16
SEEDLEN == 48
MAX_INPUT == 256
MAX_REQUEST == 1024
MAX_SEED_INPUT == 384
DF_BUFFER == MAX_SEED_INPUT + BLOCKSIZE + 16    \* buf of the derivation function
ENTROPY_LEN == 48
ENTROPY_MAX_GATHER == 128
ENTROPY_BLOCK_SIZE == 64
ENTROPY_MIN == [hardclock |-> 32, miosix |-> 8]
SeedString == 32    \* strlen of the personalisation DeviceConfig passes

Ceil(n, d) == (n + d - 1) \div d
\* Amounts are counted up to the threshold they are compared with.
Capped(n, threshold) == IF n > threshold THEN threshold ELSE n

-----------------------------------------------------------------------------
(* entropy.c *)
Source(kind, threshold) == [kind |-> kind, size |-> 0, threshold |-> threshold, digested |-> 0]

entropy_add_source(ctx, kind, threshold) ==
  IF Len(ctx) >= ENTROPY_MAX_SOURCES THEN ctx ELSE Append(ctx, Source(kind, threshold))

\* The only source of Linux (no platform entropy) or of Miosix.
entropy_init(port) ==
  entropy_add_source(<<>>, port, ENTROPY_MIN[port])

\* hardclock_poll: one unsigned long; miosix_poll: all that is asked.
Poll(kind, answer) == CASE kind = "hardclock" -> 8
                        [] kind = "miosix" -> ENTROPY_MAX_GATHER
                        [] kind = "extra" -> answer

\* One pass over the sources; it stops at the first that fails, and the bytes
\* of those before it stay in the pool.
entropy_gather(ctx, answer) ==
  LET fails(i) == Poll(ctx[i].kind, answer) = Fails
      polled(s, olen) == [s EXCEPT !.size = Capped(@ + olen, s.threshold),
                                   !.digested = Capped(@ + olen, s.threshold)]
  IN  [ret |-> IF ctx = <<>> \/ \E i \in DOMAIN ctx : fails(i) THEN -1 ELSE 0,
       ctx |-> [i \in DOMAIN ctx |-> IF \E f \in 1..i : fails(f) THEN ctx[i]
                                    ELSE polled(ctx[i], Poll(ctx[i].kind, answer))]]

\* Variant: the sizes go on from one seed to the next.
ReleasedSizesKept(ctx) == [s \in DOMAIN ctx |-> [ctx[s] EXCEPT !.digested = 0]]
Released(ctx) == [s \in DOMAIN ctx |-> [ctx[s] EXCEPT !.size = 0, !.digested = 0]]

\* Passes until every source has given its threshold, at most MAX_LOOP + 1;
\* the sizes start again from 0 only when the seed is released.
Gathered(g) == [ret |-> g.ret, ctx |-> g.ctx,
                done |-> g.ret = 0 /\ \A i \in DOMAIN g.ctx : g.ctx[i].size >= g.ctx[i].threshold]
Pass(before, answer) == IF before.done \/ before.ret # 0 THEN before
                        ELSE Gathered(entropy_gather(before.ctx, answer))
Seed(end) == IF end.done THEN [ret |-> 0, seed |-> end.ctx, ctx |-> Released(end.ctx)]
                         ELSE [ret |-> -1, seed |-> <<>>, ctx |-> end.ctx]
entropy_func(ctx, len, answers) ==
  LET pass[i \in 0..ENTROPY_MAX_LOOP + 1] ==
        IF i = 0 THEN [ret |-> 0, ctx |-> ctx, done |-> FALSE] ELSE Pass(pass[i - 1], answers[i])
  IN  IF len > ENTROPY_BLOCK_SIZE THEN [ret |-> -1, ctx |-> ctx, seed |-> <<>>]
      ELSE Seed(pass[ENTROPY_MAX_LOOP + 1])

-----------------------------------------------------------------------------
(* ctr_drbg.c; used, seed and served are history: the counters encrypted   *)
(* under the present key, what the last seed was made of, and the requests *)
(* served since, all forgotten when nothing checks them any more.          *)

\* Variant: the counter is not kept.
EncryptAgain(ctx, n) ==
  [ctx EXCEPT !.used = @ \o [i \in 1..n |-> (ctx.counter + i) % 2^CounterBits]]
\* n encryptions, each of the counter after an increment.
Encrypt(ctx, n) ==
  [ctx EXCEPT !.counter = (@ + n) % 2^CounterBits,
              !.used = @ \o [i \in 1..n |-> (ctx.counter + i) % 2^CounterBits]]

\* The new key and counter are what the old key makes; last keeps the old key.
ctr_drbg_update_internal(ctx, counter) ==
  LET rekeyed(done) == [done EXCEPT !.last = done.used, !.used = <<>>, !.counter = counter]
  IN  rekeyed(Encrypt(ctx, SEEDLEN \div BLOCKSIZE))

\* The derivation function copies the data behind a block and 8 bytes, ends it
\* with 0x80 and reads whole blocks, in a buf of fixed size; df is how much it
\* takes and reads in the last call.
Overruns(data_len) == BLOCKSIZE + 8 + data_len + 1 > DF_BUFFER
NoDf == [data |-> 0, read |-> 0]
block_cipher_df(ctx, data_len) ==
  [ctx EXCEPT !.df = [data |-> data_len,
                      read |-> BLOCKSIZE * Ceil(BLOCKSIZE + 8 + data_len + 1, BLOCKSIZE)]]

ctr_drbg_update(ctx, add_len, counter) ==
  IF add_len = 0 THEN ctx
  ELSE ctr_drbg_update_internal(block_cipher_df(ctx, add_len), counter)

\* Variant: the entropy is not counted.
SeedTooLongAlone(ctx, len) == len > MAX_SEED_INPUT
SeedTooLong(ctx, len) == ctx.entropy_len + len > MAX_SEED_INPUT

\* [ret, ctx, pool]
ctr_drbg_reseed(ctx, p, len, answers, counter) ==
  LET mixed == block_cipher_df(ctx, ctx.entropy_len + len)
      reseeded(got) ==
        IF got.ret # 0 THEN [ret |-> -1, ctx |-> ctx, pool |-> got.ctx]
        ELSE [ret |-> 0, pool |-> got.ctx,
              ctx |-> [ctr_drbg_update_internal(mixed, counter) EXCEPT
                         !.reseed_counter = 1, !.seed = got.seed, !.served = 0]]
  IN  IF SeedTooLong(ctx, len) THEN [ret |-> -1, ctx |-> ctx, pool |-> p]
      ELSE reseeded(entropy_func(p, ctx.entropy_len, answers))

ctr_drbg_init(p, len, answers, counter) ==
  ctr_drbg_reseed([counter |-> 0, used |-> <<>>, last |-> <<>>, df |-> NoDf, seed |-> <<>>,
                   served |-> 0, reseed_counter |-> 0, resistance |-> FALSE,
                   entropy_len |-> ENTROPY_LEN, interval |-> RESEED_INTERVAL],
                  p, len, answers, counter)

ctr_drbg_random_with_add(ctx, p, output_len, add_len, answers, counter) ==
  LET out(before) ==
        ctr_drbg_update_internal(Encrypt(before, Ceil(output_len, BLOCKSIZE)), counter)
      serve(fed) == IF fed.ret # 0 THEN fed
                    ELSE [fed EXCEPT !.ctx = [out(@) EXCEPT !.reseed_counter = @ + 1,
                                                            !.served = @ + 1]]
  IN  IF output_len > MAX_REQUEST \/ add_len > MAX_INPUT THEN [ret |-> -1, ctx |-> ctx, pool |-> p]
      ELSE IF ctx.reseed_counter > ctx.interval \/ ctx.resistance
      THEN serve(ctr_drbg_reseed(ctx, p, add_len, answers, counter))
      ELSE serve([ret |-> 0, ctx |-> ctr_drbg_update(ctx, add_len, counter), pool |-> p])

-----------------------------------------------------------------------------
NoReply == [op |-> "none", ret |-> 0]
None == <<>>
RandomInit == pool = None /\ drbg = None /\ available = FALSE /\ reply = NoReply

\* DeviceConfig's constructor; the first two bytes are the device's _id.
Construct(port, v) ==
  /\ drbg = None
  /\ LET never == [i \in 1..ENTROPY_MAX_LOOP + 1 |-> Fails]
     IN  \E init \in {ctr_drbg_init(entropy_init(port), SeedString, never, v)} :
           IF init.ret = 0
           THEN \E id \in {ctr_drbg_random_with_add(init.ctx, init.pool, 2, 0, never, v)} :
                  /\ drbg' = id.ctx /\ pool' = id.pool /\ available' = (id.ret = 0)
                  /\ reply' = [op |-> "random", ret |-> id.ret]
           ELSE /\ drbg' = init.ctx /\ pool' = init.pool /\ available' = FALSE
                /\ reply' = [op |-> "reseed", ret |-> init.ret]

\* ctr_drbg_random (DeviceConfig::random, the key exchanges) has no add_len.
\* What df says of the calls before is forgotten.
Called == [drbg EXCEPT !.df = NoDf]
Random(output_len, add_len, answers, v) ==
  /\ drbg # None
  /\ drbg.served < MaxServed
  /\ \E done \in {ctr_drbg_random_with_add(Called, pool, output_len, add_len, answers, v)} :
         /\ drbg' = done.ctx /\ pool' = done.pool
         /\ reply' = [op |-> "random", ret |-> done.ret]
  /\ UNCHANGED available

Reseed(len, answers, v) ==
  /\ drbg # None
  /\ \E done \in {ctr_drbg_reseed(Called, pool, len, answers, v)} :
         /\ drbg' = done.ctx /\ pool' = done.pool
         /\ reply' = [op |-> "reseed", ret |-> done.ret]
  /\ UNCHANGED available

\* The length is not checked.  A call that overruns buf is undefined: nothing
\* is said of the process after it, and what follows is a new one.
Update(add_len, v) ==
  /\ drbg # None
  /\ ~Overruns(add_len)
  /\ drbg' = ctr_drbg_update(Called, add_len, v)
  /\ reply' = [op |-> "update", ret |-> 0]
  /\ UNCHANGED <<pool, available>>

UpdateOverruns(add_len) ==
  /\ drbg # None
  /\ Overruns(add_len)
  /\ drbg' = None /\ pool' = None /\ available' = FALSE
  /\ reply' = [op |-> "overrun", ret |-> 0]

Configure(set) ==
  /\ drbg # None
  /\ drbg' = [drbg EXCEPT !.resistance = set.resistance, !.entropy_len = set.entropy_len,
                          !.interval = set.interval, !.last = <<>>, !.df = NoDf]
  /\ reply' = [op |-> "set", ret |-> 0]
  /\ UNCHANGED <<pool, available>>

AddSource(threshold) ==
  /\ drbg # None
  /\ pool' = entropy_add_source(pool, "extra", threshold)
  /\ reply' = [op |-> "add", ret |-> IF pool' = pool THEN -1 ELSE 0]
  /\ UNCHANGED <<drbg, available>>

Gather(answer) ==
  /\ drbg # None
  /\ \E done \in {entropy_gather(pool, answer)} :
         pool' = done.ctx /\ reply' = [op |-> "gather", ret |-> done.ret]
  /\ UNCHANGED <<drbg, available>>

RandomNext ==
  \/ \E port \in {"hardclock", "miosix"}, v \in Counters : Construct(port, v)
  \/ \E n \in OutputLengths, a \in Lengths, answers \in Answers, v \in Counters :
       Random(n, a, answers, v)
  \/ \E len \in Lengths, answers \in Answers, v \in Counters : Reseed(len, answers, v)
  \/ \E len \in Lengths, v \in Counters : Update(len, v)
  \/ \E len \in Lengths : UpdateOverruns(len)
  \/ \E set \in Settings : Configure(set)
  \/ \E t \in Thresholds : AddSource(t)
  \/ \E answers \in Answers : Gather(answers[1])

-----------------------------------------------------------------------------
\* Bytes given out come from a seed that is at most the interval in force old
\* (or new, with prediction resistance), and into that seed went at least the
\* threshold of every source, also when attempts to reseed failed before.
FreshlySeeded ==
  (drbg # None /\ reply.op = "random" /\ reply.ret = 0) =>
     /\ available
     /\ drbg.seed # <<>>
     /\ \A i \in DOMAIN drbg.seed : drbg.seed[i].digested >= drbg.seed[i].threshold
     /\ drbg.served <= IF drbg.resistance \/ drbg.interval < 1 THEN 1 ELSE drbg.interval

\* Under one key no counter is encrypted twice, neither for two blocks of
\* output nor for output and the next key.
EncryptsOnce ==
  drbg # None => Cardinality({drbg.last[i] : i \in DOMAIN drbg.last}) = Len(drbg.last)

\* A call that seeds the generator or draws from it never overruns: entropy and
\* additional data fit seed[MAX_SEED_INPUT] together, and the last block the
\* derivation function reads ends within buf.  Nothing like it holds of
\* ctr_drbg_update, which takes any length (UpdateOverruns).
BuffersHold ==
  (drbg # None /\ reply.op \in {"reseed", "random"}) =>
     /\ drbg.df.data <= MAX_SEED_INPUT
     /\ drbg.df.read <= DF_BUFFER
====
