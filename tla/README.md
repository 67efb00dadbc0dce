# LibSmoke in TLA+

LibSmoke lets a group of devices agree on a key over a medium on which everybody hears
everybody, and then exchange packets encrypted with it. This directory holds TLA+ modules
that model the library, the libraries it is built on, TLC configurations that check them
on small instances, and machine-checked proofs about the key exchange it uses by default,
the layers below it (server, stream and serial backends, packets), the client's handshake
and the modular inverse under the curve arithmetic. `PROJECT.json` is the
index: components, runs, the lines each definition stands for, hazards, findings, theorems.

Paths below are relative to `src/Project/libsmoke`; `knx/` is
`libs/sknx/src/shared/knx`, `sban/` is `libs/sknx/libs/sban/src`, `polarssl/` is
`libs/sknx/libs/polarssl`, `tiny/` is `libs/tiny-AES-c-master`.

## 1. The system

```
 application
     | init / send / receive                               ServerSmoke
 ClientSmoke (src/libsmoke_client.h)                 (src/libsmoke_server.h)
     | during init(): owns                                    ^
 SKNX (knx/knx.h)  --- DummyNodeCounter (knx/nodecounter/)    | one TCP connection
     |             \-- KeyExchange (knx/crypto/): MKA by      | per client
     |                 default, or BD1, BD2, GDH2             |
 PKTWrapper (knx/pktwrapper.h), one ring per sender           |
     |                                                        |
 Backend (knx/backend/): LinuxTCP  ---------------------------+
     |                   or a UART, or TP-UART on a KNX bus
 DeviceConfig (knx/config.h): entropy pool, random generator
     |
 polarssl/ (large numbers, curves, AES, SHA-512, CTR_DRBG), tiny/ (AES of the messages)
```

On Linux everything in a client runs in the one thread that calls `update()`; concurrency
is that of the clients, the server and the network. On Miosix a thread of the backend reads
the serial line and shares `_stream` with `update()` under a mutex. There are no acknowledgements, retransmissions or
timeouts above TCP, and nothing is persisted.

| component | state | operations | interacts through |
|---|---|---|---|
| **MKA key exchange** `knx/crypto/mka.h`, `sban/mka.c` | `_status`, `_nodes`, `_current_step`, `_remote_keys`, `_next_step_values`, context (round `r`, point `k`, secret `a`), key | `init`, `update`, `shutdown`, `key` | packets of PKTWrapper, called by SKNX |
| **BD1, BD2, GDH2** `knx/crypto/*.h`, `sban/*.c` | what each keeps between packets: the two neighbours' points and all `X`; the chair's queue; nothing | the same | the same |
| **SKNX and node counter** `knx/knx.h`, `knx/nodecounter/dummy.h` | `_status` (offline, counting, handshaking, finalizing, online), the ids found, the countdown | `init`, `update`, `getKey` | drives counter, exchange and PKTWrapper in one `update()` |
| **ClientSmoke** `src/libsmoke_client.h` | backend, its own PKTWrapper, key | `init`, `send`, `receive` | creates an SKNX with a second PKTWrapper on the same backend |
| **PKTWrapper and rings** `knx/pktwrapper.h`, `knx/multirings.h`, `knx/ringbuffer.h` | `_in`, `_out`, one ring of bytes per sender from a pool of `max_clients` | `write`, `update`, `read`, `count` | telegrams of at most 15 bytes of body |
| **LinuxTCP** `knx/backend/linux-tcp.h` | `_pktbuffer` (256 bytes), `_pkts` | `connect`, `broadcast`, `update`, `read` | bytes of a TCP connection |
| **Server** `src/libsmoke_server.h` | `clients` with `mustDelete`, `pktQueue` | `init`, `run`, `shutdown` | relays every chunk to every client |
| **Serial backends** `knx/backend/linux-uart.h`, `miosix-stm32-usart.h` | as LinuxTCP; on Miosix `_stream`, filled by a thread | as LinuxTCP | serial line |
| **TP-UART backends** `knx/backend/linux-tpuart.h`, `miosix-tpuart.h` | `_output`, `_is_packet_outgoing`, `_pktbuffer`, `_pkts`, `_stream` | `init` (reset, address, status), `broadcast`, `update`, `shutdown` | commands to and answers of the chip |
| **Large numbers** `polarssl/src/bignum.c` | sign, limbs and their number; spare limbs, shared operands | `mpi_*` | called by the curves |
| **Curves** `polarssl/src/ecp.c`, `ecp_curves.c`, `sban/util.c` | group with its table of multiples of the generator; points | `ecp_*` | called by the exchanges, draws random numbers |
| **Symmetric primitives** `polarssl/src/aes.c`, `sha512.c`, `tiny/aes.c` | round keys, chaining block or counter with the place in the key stream; buffer and length of a hash | set key, crypt, starts / update / finish | `send`, `receive`; the random generator |
| **Random numbers** `knx/config.h`, `polarssl/src/entropy.c`, `ctr_drbg.c` | pool with the amount of every source, key, counter, reseed counter | `DeviceConfig()`, `random`, reseed, update, add source | called for ids, secrets, blinding |


### What is hard about it

* *Interleaving.* Every client decides alone when counting ends and when a step of the
  exchange is over; packets of one step overlap with those of the next, and the first ones
  of the exchange meet clients that are still counting.
* *Ordering.* The counter **drops** packets of the exchange it reads. The MKA steps are a
  barrier only because the server's stream is totally ordered.
* *Partial failure.* Any call of the crypto library may fail at one client while the others
  go on; the server loses clients half way through distributing a chunk.
* *Streams.* TCP keeps bytes in order and nothing else: telegrams are cut by `recv`, chunks
  by the server, packets by 15-byte telegrams.
* *Limits.* A pool of `max_clients` rings of 1024 bytes, a 256-byte buffer written without
  a look at the result, a round counter that stops at n - 2.
* *A chip that talks.* The TP-UART puts echoes, confirmations and errors between the
  telegrams of the bus, without frames: what a byte means depends on where the parser is.
* *Boundaries of the arithmetic.* Results that are their own operands, spare limbs, zeros
  with a sign, carries below zero, the bits left over from a window, a comb whose digits
  borrow from each other.
* *State between calls.* Places in a key stream, half-full hash buffers, a table of
  multiples, amounts of entropy, a reseed counter: all correct only if every call leaves
  them so for a next one that is cut differently, or that fails.

`PROJECT.json` lists 40 hazards at their lines, with the properties that would catch each
going wrong, or the reason why there is none.

## 2. Modules

| module | models | abstract specification it is shown to implement |
|---|---|---|
| `MKAMath` | the arithmetic of `mka.c` | |
| `MKANode` | `MKAKeyExchange` at one node: init, one turn of the loop of update, shutdown | |
| `MKA` | a group of `MKANode`s over the server's one stream | `GroupKey` |
| `LockstepRun` | the run of MKA in which all nodes move together | |
| `MKALockstep` | the inductive invariant `IInv` of `MKA`, which compares it with that run | |
| `MKAProofs` | the theorems about `MKA` | |
| `MKAPeerLinks` | the same nodes over links that order each sender's packets only | |
| `ExchangeHost` | what SKNX and network are to the other exchanges | |
| `BD1`, `BD2`, `GDH2` | the other exchanges with their arithmetic | |
| `Exchanges` | each of them run by groups of different sizes | `GroupKey` |
| `SKNX`, `SKNXProofs` | `ClientSmoke::init` at every client: counter, exchange, PKTWrapper, connection; its theorems | `MKA` and, through it, `GroupKey` |
| `Server`, `ServerProofs` | `ServerSmoke` split between its system calls, with clients that come and go; its theorems | `OrderedBroadcast` |
| `RingBuffer` | the ring buffer byte by byte with its wrap-around; sizes of telegrams | a queue of bytes (`BackendProofs`) |
| `Framing`, `BackendProofs` | LinuxTCP, LinuxUART and MiosixUSART: telegrams to bytes and back; the theorems about them and the ring | `FifoChannel` |
| `TPUART`, `TPUARTProofs` | LinuxTPUART and MiosixTPUART, and the chip they talk to; its theorems | |
| `Reassembly`, `ReassemblyProofs` | PKTWrapper with its pool of rings; its theorems | `FifoChannel`, one per sender |
| `Messenger`, `MessengerProofs` | ClientSmoke from the end of the exchange on; its theorems | |
| `Bignum` | large numbers limb by limb; calls on numbers that calls left behind | integers |
| `ModArith` | Montgomery products, powers, prime tests, generation of primes; a caller of them | the same on integers |
| `ModInverse`, `ModInverseProofs` | `mpi_gcd` and `mpi_inv_mod` turn by turn, and the theorems about them | |
| `EcpReduce` | the fast reductions of every family of curves, limb by limb | remainders |
| `EcpArith` | points: Jacobian formulas, comb, ladder, blinding, keys, records, groups | the equations of the curve |
| `Aes` | the two implementations of AES | each other, published vectors |
| `CipherModes` | CBC, CFB and CTR of both libraries | |
| `Hashing` | SHA-512/384 and HMAC around the compression function | the standard's padding |
| `RandomSource` | DeviceConfig, entropy pool, CTR_DRBG | |
| `Loops` | a `for` loop as a fold, for the libraries | |
| `MC...` | instances for TLC (`MKAPeerLinks`, `Server`, `Reassembly` and `Messenger` are run as they are) | |

The layers are connected by these abstract specifications. `SKNX` implements `MKA`, which
implements `GroupKey`; `MKA` and `SKNX` take the network to be one ordered stream, which is
what `Server` is shown to provide; they pass whole packets, which is what `Framing` and
`Reassembly` are shown to provide. The exchanges compute with points as with numbers
modulo a prime, which is what `EcpArith` over `ModInverse` and `EcpReduce` is shown to
provide for small curves, and those over `Bignum`.

**Correspondence with the code.** Names are those of the source where possible (`status`,
`step` = `_current_step`, `remote` = `_remote_keys`, `deferred` = `_next_step_values`,
`ctx`, `skStatus`, `counter`, `mustDelete`, `pktQueue`, `rings`, ...). An action is one
operation up to the point where somebody else can act:

* *MKA.* `Start` is `init`; `Receive` is one turn of the loop of `update()`, including the
  step it completes: accumulate, publish, next step, or compute the key (`CryptoUpdate`),
  or drop the packet (`Discard`). A failing crypto call leaves `ERROR`, and `Shutdown` is
  what SKNX then does. `Miss` is the packets of the exchange that the counter reads, and drops, in one
  `update()`. `Chatter` is the counter's
  `THATSME`, of which only the effect on the exchange (it is skipped) matters here.
* *SKNX.* `update()` is `Pump` (PKTWrapper) followed by what `_status` selects: `Count`,
  `StartKey`, `HandshakeTurn` ..., `Finish`, `GoOnline`; `busy` says that a client is in the
  middle of one. `Join`, `Accept` and `Relay` are connection and server. History relates the
  streams of a client to the one stream of `MKA`: `log` is what the server has relayed of
  the exchange, `pos` how far a client has read or dropped it, `owed` what it has written
  and the server has not relayed, `places` where in `log` the packets on their way to it are.
* *Server.* `run()` is `Select`, `AcceptNew`/`NoNew`, a `Recv`/`RecvFails`/`NotReadable` per
  client, a `Send`/`SendFails`/`SendKills`/`SkipClient` per client and chunk, `PopChunk`,
  `RemoveClosed` once per client: a client can act between any two system calls. A `send` to
  a client that closed its end may still go through, return an error (`SendFails`, the client
  is marked) or, when an earlier one met the closed end, raise SIGPIPE, which nothing ignores
  (`SendKills`): the process is `killed`, and every connection with it.
* *Framing, Reassembly.* A byte is its place in a telegram or packet, which is all that the
  parsing can get wrong. A header read from the wrong place gives any size. The ring of
  the backends is the array of the code with `pstart` and `plen`; a byte removed stays in
  it. In Reassembly `meant` is history: the numbers of the packets of a sender that are for
  the receiver. `Recv`, `UartRead` and `ThreadRead` are the three ways bytes arrive; a turn of the
  loop of `_process_packet` is a step of its own.
* *TPUART.* `Open`, `ResetDone` ... `CheckStatus` are the reads of `init()`;
  `ProcessOutgoing` begins each update; `Confirm`, `ErrorCode` and `DataPacket` are the
  branches of `_process_packet`. `Looks` gives what a byte read as an opcode may be taken
  for: inside a telegram, anything. `ChipAnswers`, `Hears`, `ReportsError` and `Restarts`
  are the chip, modelled from what the code expects of it.
* *Messenger.* The two PKTWrappers on one backend are `rest` (lost at `GoOnline`) and `inq`;
  `sent` is how far the `_packetize` of a sender has come. The server relays what a `recv`
  returned: `relayed` is how far it has come with each client, `halfway` the client inside
  whose telegram the last chunk ended, `torn` that another client's chunk came next. From
  there no client finds the headers of the stream again, and runs are not followed further.
  A ring holds `RingSize` telegrams and refuses the next (`Full`). Nobody leaves.
* *ModArith.* A prime test is the rounds of the code, one `mpi_exp_mod` and its squarings
  each. The bases are drawn independently, so a test is the set of its possible outcomes:
  what some base that can be drawn answers (`mpi_miller_rabin`). A composite number all of
  whose drawn bases are liars is accepted. The search of `mpi_gen_prime` is a step per
  candidate (`GenPrime`, `TryCandidate`), from every number the generator can draw.
* *BD1, BD2, GDH2.* `mem` is what an exchange keeps between packets. A step is one turn of
  the loop with what `update()` does after it when that packet makes it possible.
* *Bignum.* A number is its sign and its limbs, so that spare limbs and a negative zero
  exist; functions that take pointers get the registers by name, so that operands can be the
  same object. A caller keeps three registers from call to call.
* *EcpReduce.* The same limbs; the fast reductions run on words narrower than the code's
  (8 bits for 64, 4 for 32), and on primes of the same form in them.
* *EcpArith.* The coordinates are integers modulo the prime of a small curve, as
  `ecp_modp` leaves them. A caller calls the public functions, with generators that are
  absent, useful, late or stuck.
* *Aes.* `tables` are the static tables of `aes.c`, made when a key is set for the first time.
* *CipherModes, Hashing.* Byte by byte with small blocks; the block cipher is a permutation
  of the blocks, the compression function is free (equal only for equal blocks).
* *RandomSource.* The pool is what it has digested of each source since the last seed; a key
  is the list of the counters encrypted under it. `ctr_drbg_update` checks no length:
  from 392 bytes on it writes behind the buffer (`UpdateOverruns`), nothing is said of the
  process any more, and what follows is a new one.

**Arithmetic.** A point x*G of the curve is represented by x modulo a small prime `P`;
adding points is adding modulo P. The key is the abscissa of a point; equal points have
equal keys. A point that happens to be zero is rejected by the library; secrets are chosen
so that none occurs, in reality the chance is 2^-256.

**Variants.** Definitions named `...Late`, `...Never`, `...TooEarly` and the like, marked
"Variant" in the modules, are deliberately wrong versions of the definition after them.
Each property is known to fail when one is put in its place (`mutants` in `PROJECT.json`).

## 3. Runs

All runs take under five minutes with two workers.

| run | question | instance |
|---|---|---|
| `mka3` | Do keys agree, are steps a barrier, is what is gathered for a step exactly what was sent for it, does a member complete only when all have contributed, is `IInv` an invariant, does everybody complete unless a call fails or a packet is missed? | 3 nodes, every order of relaying, packets missed before init, any failing call, one packet of the counter |
| `mka_peer_links` | What if only each sender's order is kept? (violation) | 3 nodes |
| `exchanges` | Do BD1, BD2 and GDH2 promise the same as MKA, and does everybody complete? | groups of 2 and 3, of 4 for BD2 and GDH2; members that fail or miss packets |
| `sknx2` | Do counter, exchange and network together implement MKA, at any relative speed? Does everyone end online unless a call fails? | 2 clients, started and accepted at any time, `AnnouncePeriod` 2, `GraceLoops` 3 |
| `sknx3` | The same for three clients that sleep the same time, plus: is the key that of the whole group, and has an online client sent all it owes? | 3 clients, timed, period 4, grace 4 |
| `server` | Is the server one ordered broadcast, is nobody left with half a chunk, is everybody served in the end while the server lives? | 2 clients, messages of 3 units, recv of up to 2, socket buffer of 3 |
| `backends` | Do telegrams come out once, whole, in order and at once, however the stream is cut? Are echoes, confirmations and errors told apart, is at most one telegram outstanding, does `update()` come back, does the queue drain? | 4 telegrams of 3 or 4 bytes, recv of up to 2, ring of 5; TP-UART on Linux and Miosix with 3 telegrams or errors |
| `reassembly` | Do packets of each sender come out whole whatever the others and a damaged telegram do? When is a telegram lost? | 2 senders of 2 packets, pool of 1 or 2 rings, wrong checksums, packets larger than a ring |
| `messenger` | Do all messages arrive, whole, oldest first, unless a telegram is torn? | 3 clients, 2 of which send a message of 3 telegrams, which just fits in a ring; the server's chunks end anywhere |
| `messenger_decrypt` | Does `receive` return the decrypted body? (violation) | 2 clients |
| `arithmetic` | Does every call give the number its comment promises and leave the others alone? Are powers, prime tests, inverses, remainders and points right, and do the loops of the inverse end? | limbs of 8 bits; primes of 3 to 7 bits from every number drawn, candidates up to 180; three curves of 7 and 15 bits |
| `crypto` | Are the two AES one cipher? Does a stream survive being cut differently on both sides, a hash any cutting? Does output always come from a seed that is new and full enough, is no counter encrypted twice, do the buffers hold? | AES-128 to 256 in full; blocks of 3 two-bit bytes; hash blocks of 8 bytes and words of 5 bits; 2 sources |

### Why these bounds

* *Three nodes* are the smallest group with two steps, hence with a packet of the next
  step, a round number other than 0, a last step and a step that is not the last. Larger
  groups are covered by the proof; `MCMKALockstep` also has TLC evaluate the algebra for
  groups of up to six with several secrets. A P of 101 has an inverse for every round.
* *Groups of two to four* for the other exchanges: in a group of two both neighbours are
  the same member; a member of GDH2 that is neither second nor last exists from four on.
  Four members of BD1 are too many states; three have a neighbour order and one weighted X.
* *SKNX.* `AnnouncePeriod` 8 and `GraceLoops` 64 are scaled down. What matters is that the
  grace period outlasts the time until the last client has announced itself; `sknx3` holds
  with (4, 4), and an exploration with grace 1 fails, as it should (see "timing" below).
  `MaxQueue` bounds a stream and only delays a step.
* *Server.* A message of three units and a recv of at most two always leaves a piece, the
  buffer of three makes `Send` block, and two clients are enough for "the others".
* *Backends.* The ring is the smallest the assumption allows (`RecvMax + Hdr + Payload`), so
  that a `recv` just fits, and the positions go round it in every phase. The TP-UART's
  queue of 16 is 0 (the code's test lets one more in), so that a full queue is reached;
  own telegrams, those of others and errors together are three.
* *Reassembly.* One sender more than rings, and packets of less, exactly and more than a
  ring.
* *Messenger.* A ring of three telegrams and a message of three: one telegram left over in a
  ring is one too many (`FullEarly`). Of a chunk only where it ends matters: inside a telegram
  or not; what lies between two such ends can have come in any number of chunks.
* *Arithmetic.* The table of small primes ends at 7, so that 121 = 11 * 11 has no small factor
  and is reached by the search: it has liars (3 among them), and `mpi_gen_prime` may return it.
  `MaxCandidate` ends a search that goes on at 180, behind the largest candidates that are
  drawn and their successors. Limbs of 8 bits let sums and products of two or three limbs carry through
  every position; the magnitudes are those around the limb boundaries (255, 256, 33023,
  40961). Inverses are taken of -40..70 modulo -1..45, the refused moduli and divisors in
  common included. Patterns of limbs of 0, 1 and all ones, from any position up, reach every
  carry of the fast reductions, negative ones included; the loops that end a reduction
  are followed for `MaxTurns` + 1 turns, more than the property allows. The curves have A = -3, A = 0 and the
  Montgomery form, small enough to be compared with the group law point by point.
* *Crypto.* AES is not scaled. Streams of 8 bytes have two block boundaries and a counter
  that overflows from byte to byte (the initial values include all ones). Words of 5 bits
  carry from the first word of the length to the second at 32 bytes. Two requests per seed,
  sources that give nothing, little or an error.

### Reductions

`SKNX` is checked under `WholeFairSpec` (`MCSKNX`): a client inside `update()` ends it
before anybody else acts. Only `Pump` touches what others can see, so the rest commutes
with their steps. No run declares a symmetry.

### Fairness

* *MKA, SKNX, Exchanges.* Weak fairness of each client's update and of start and relaying:
  `ClientSmoke::init` calls `update()` in a loop until it is online, the server runs in a
  loop (`tests/server_test.cpp`), and TCP delivers. Nothing is assumed of failing calls
  or missed packets: `EveryoneOnline` and `AllComplete` are conditional on there being none.
* *Server.* Weak fairness of starting, of `run()` as a whole and of each client's reading.
  A client that never reads stops the server (`send` blocks): that is a hazard of the code,
  not assumed away but outside `EventuallyServed`, which also ends with the server: stopped
  by the program, or killed by SIGPIPE.
* *Backends.* The application calls `update()`, a loop that is entered is run, the thread of
  Miosix reads what is there and the chip works off its commands. Nothing is assumed of the
  bus.
* *Arithmetic.* A call runs to its end; nothing else is concurrent. *Crypto* states none.
* *Messenger.* The application calls `receive()` in a loop (`tests/client_test.cpp`), a `send`
  that has begun ends, and the server goes on relaying. `AllReceived` holds up to a torn
  telegram: nothing keeps the server from tearing one.

*Timing in `sknx3`.* For three clients the code relies on timing: a client that has
found everyone counts 64 more updates so that no slower client drops its first packet of
the exchange. With arbitrary speeds this fails. The run states the assumption explicitly
(`Timed`): the network is faster than the 50 ms between two updates, and between two ticks
each active client does at least one and at most `MaxRate` updates. `sknx2` needs no such
assumption: with two clients the counter stops reading when it knows both, so the packets
of the exchange stay in the queue.

*Patience in `messenger`.* With `Patient = FALSE` a client sends as soon as its own `init()`
returns, and `OldestFirst` and `AllReceived` fail: the others may still be inside theirs, whose PKTWrapper
takes packets and halves of packets and is then destroyed (`libsmoke_client.h:50`). The run
and the theorem about it state the condition under which the library keeps its promise.

*Losses in `backends`.* The TP-UART is followed up to the first byte that does not reach
the parser (read as an answer during `init()`, no room in the ring, a restart of the chip,
`shutdown()`): after that the code promises nothing, see section 6.

Runs with `CHECK_DEADLOCK FALSE`: the protocols end, a group of which one member failed
stops for good (no timeout in the code), a ring that is full of a too long packet stays so,
and a finished inversion is not followed by another.

## 4. Proofs

### The key exchange

`MKAProofs` proves, for **every** group, prime, order of relaying, pattern of failures and
of missed packets (2163 obligations, all by SMT, Zenon and LS4):

| theorem | statement |
|---|---|
| `FollowsLockstep` | `Spec => []IInv` |
| `TypeCorrect` | `Spec => []TypeOK` |
| `Agreement` | `Spec => []KeyAgreement` |
| `Integrity` | `Spec => []RoundIntegrity` |
| `StepBarrier` | `Spec => []Barrier` |
| `NothingToReplay` | `Spec => NeverReplays` |
| `Refinement` | `Spec => ImplementsGroupKey` |

**Argument.** `KeyAgreement` says nothing of a run before its end, and is far from
inductive. The idea is to compare any run with the one in which all nodes move together,
`Lockstep[s][n]`, the context of n in step s. `IInv` says that every node is where the
lock-step run is at its own step:

* `NodeInv`: a running node's context is `Lockstep[step][n]`, its packet of the step is
  queued or on the stream; a completed node has the key of the last lock-step context;
* `RemoteInv`, `DeferredInv`: what it keeps of the others was read from the stream and is
  the lock-step point of this, or the next, step;
* `PastInv`: it has read everybody's packets of the steps it left;
* `SentInv`: everybody sends each step once, and none ahead of its own;
* `CausalLog`, `CausalOut`: on the stream a packet of step s + 1 comes after **all** packets
  of step s. This is what the total order of the server gives, and what fails in
  `MKAPeerLinks`. From it follows that a node with a full step has no postponed packets:
  the replay loop of `mka.h`, which is wrong, is never needed.

`Publish` shows that a node which moves on, with all packets of its step read, keeps the
causal part, and `RelayKeeps` that the server does; one lemma per action then gives
`IInv /\ [Next]_vars => IInv'` (`NextIInv`). `Refinement` maps each step to a `Join`,
`Finish` or `Fail` of `GroupKey`, or to a stutter.

**Assumptions.** Those on the constants (`NodeAssumption`, `GroupAssumption`,
`EnvAssumption`) and two about the lock-step run: `LockstepAssumption` is its definition,
step by step, from the operators of `MKAMath`; `LockstepAgreement` is the algebra, that at
the end of the lock-step run, a sequential computation without interleaving, failures or
network, everyone computes the product of the secrets. The latter is a statement about
iterated sums of products, an induction over data that the prover cannot do; TLC
evaluates it, for the group of `mka3` and for groups of two to six members with three
choices of secrets (`AgreementOfLargerGroups`). What is proved is that asynchrony, early
packets, failures and missed packets never lead away from it.

### The modular inverse

Every point the exchanges send is normalised with `mpi_inv_mod`, and the key is an abscissa
after such an inverse. `ModInverseProofs` proves, for **every** argument and modulus:

| theorem | statement |
|---|---|
| `Invariant` | `Spec => []IInv` |
| `InverseIsRight` | `Spec => []InverseRight` |

**Argument.** `IInv` is the type invariant, the range of the variables at each control
point (`Setup`), the property itself, and what relates the two loops to it.
`Combination`: TU = U1 * TA + U2 * TB and TV = V1 * TA + V2 * TB through all turns of the
second loop, also when an odd pair is made even by adding TB and subtracting TA before it is
halved (`HalvedCombination`: the new pair is even because not both of TA and TB are).
`Descends`: what divides both TU and TV divides TA and TB. `Coprime`: the first loop
(`mpi_gcd`, turn by turn) lets only pairs without a common divisor through, because a
divisor common to what is left divides the arguments (`GcdUp`), an odd one common to the
arguments is still there (`GcdDown`), and the twos taken out are common too (`GcdTwos`).
When TU has come to 0, TV divides both, hence is 1, and V1 * TA + k * TB = 1 is what
`InverseRight` asks of V1 modulo TB. One lemma per action.

**Assumption.** Numbers and moduli are integers (`NumbersAssumption`), nothing else: the
limbs below are the business of `Bignum`. That the loops end (`Returns`) is a liveness
property and stays with TLC.

### The server

`ServerProofs` proves, for **every** number of clients, size of message, of `recv` and of
socket buffer, and every moment of joining, failing, hanging up and being killed:

| theorem | statement |
|---|---|
| `AlwaysIInv` | `Spec => []IInv` |
| `AlwaysCaughtUp` | `Spec => []CaughtUp` |
| `BroadcastRefined` | `Spec => ImplementsBroadcast` |

**Argument.** `CaughtUp` speaks of the moment between two calls of `run()`; inside, clients
have got different parts of the stream. What holds throughout is an account
(`Accounted`): there are cuts of the stream such that the chunks of `pktQueue` are the
pieces between neighbouring cuts, the last cut being the end of the stream, and each
client that is not marked has reached the first cut, or the second one if the loop of the
sends has passed it. `recv` adds a cut (`OneCutMore`), `Send` moves one client, `PopChunk`
forgets the first cut, which all have then left behind. `Settled` is what each loop of
`run()` leaves to the next, above all that nothing is queued while clients join or are
removed; `Pieces` is about what a client got, also after it was marked. The order of the
loops of `run()` is exactly what this needs. Each step is a `Publish`, `Deliver`, `Attach`
or `Leave` of `OrderedBroadcast`, or a stutter; a server that is killed is everybody's leaving.

### The ring buffer and the stream backends

`BackendProofs` shows first that the ring is a queue (lemmas about `RingWrite`, `RingPeek`
and `RingRemove`: what they do to `Contents`, for every start and every wrap-around), then,
for **every** ring, size of telegram, number of telegrams and way the stream is cut by
`recv`, by `read` and by the thread of Miosix:

| theorem | statement |
|---|---|
| `FramingAlwaysIInv` | `Spec => []IInv` |
| `AlwaysNothingHeldBack` | `Spec => []NothingHeldBack` |
| `ChannelRefined` | `Spec => ImplementsChannel` |

**Argument.** `Laid`: the bytes in the ring, in `_stream` and on the wire, one after the
other (`Transit`), are those of the telegrams that have not been cut off yet, each at its
place, so that the ring begins with a header and a size read from it is a size that was
written. `Drained`: a call of `_process_packet` leaves less than a telegram. With it, and
`RingSize >= RecvMax + Hdr + Payload`, the result of `RingBuffer::write` that
`linux-tcp.h:121` does not look at is always success: only `_stream` of MiosixUSART, which
is not bounded by one `recv`, can overflow the ring, and the invariant says no more of it.

### The TP-UART

`TPUARTProofs` proves, for both drivers and **every** number of telegrams, errors and
restarts:

| theorem | statement |
|---|---|
| `TPUARTAlwaysTIInv` | `TSpec => []TIInv` |
| `AlwaysOneAtATime` | `TSpec => []OneAtATime` |
| `TPUARTAlwaysHeardInv` | `TSpec => []HeardInv` |
| `AlwaysHeardInOrder` | `TSpec => []HeardInOrder` |

**Argument.** No frame tells the parser where a telegram begins; a byte of a telegram that
is read as an opcode may pass for a confirmation. `Whole`: with each byte of a telegram on
its way all its others are there, at their places. This is kept because a branch of
`_process_packet` takes either a byte that is no part of a telegram or a whole one
(`UnitSize`), so that the parser is always at the first byte of one. `Awaited`: the
telegram `_is_packet_outgoing` stands for is in the chip or its confirmation, exactly one,
is on the way; `InOrder`: it comes between what has been on the bus and the queue.
`HeardInv` follows the telegrams of the others from the line to `_pkts`: their bytes lie on
the line in the order of the bus and none twice (`Queued`); each good telegram is on
the line or was given to the program, and what was given is before what is on the line
(`Given`). That the echoes never get there rests on `InOrder`: what the chip sends
was accepted by `broadcast()`.

### The packets

`ReassemblyProofs` proves, for **every** number of senders and of rings, every size of ring
and packet, every interleaving and every wrong checksum:

| theorem | statement |
|---|---|
| `ReassemblyAlwaysIInv` | `Spec => []IInv` |
| `AlwaysIsolation` | `Spec => []Isolation` |
| `AlwaysLossOnlyWhenFull` | `Spec => LossOnlyWhenFull` |
| `ChannelsRefined` | `Spec => ImplementsChannels` |

**Argument.** `Gapless`: the telegrams of a sender on the line are its packets, cut without
a gap up to the last one; `Following` is the next byte to arrive. `Between` says, for a
sender none of whose telegrams was discarded, that its ring holds what arrived of the
packet of that byte, none if the packet is for somebody else, and that all before it has
come out; `Complete` is the moment inside `_recompose` at which a packet is whole and has
not been read. `Numbers` and the history variable `meant` say which packets those are
without computing a subsequence. The point about the pool is that a ring `get` or
`garbage_collect` gives up is one that is empty, so that the invariant of its sender does
not notice, and that a packet never waits in its ring: the rings of the others cannot
matter, except by being all in use, which is `LossOnlyWhenFull`.

### The handshake of a client

`SKNXProofs` proves, for **every** group, period of announcing, grace period, length of
queues and pattern of failures, and at **any** relative speed, with or without the timing
that `sknx3` assumes (2637 obligations):

| theorem | statement |
|---|---|
| `ClientsAlwaysIInv` | `Spec => []IInv` |
| `AlwaysFlushed` | `Spec => []OnlineMeansFlushed` |
| `GroupFollowsLockstep` | `Spec => [](GroupInv /\ Lossy!IInv)` |
| `ImplementsLossyMKA` | `Spec => Lossy!Spec` |
| `GroupAgrees` | `Spec => Lossy!ImplementsGroupKey` |
| `EveryoneHoldsTheKey` | `Spec => []OnlineAgreement` |

**Argument.** *Flushed.* The key is computed by the last turn of an `update()`, the next
`update()` sends `_out` before it looks at the exchange, and from then on nothing is
written. So an online client, whose PKTWrapper is about to be destroyed, owes nothing.

*The refinement.* `Lossy` is `MKA` with `out` the packets a client owes, in which packets
may be missed before a node starts. `GroupInv` says that the streams of the clients
are the one stream of `MKA`, cut into pieces:

* `SendInv`: what a client has written and the server has not relayed is announcements of
  the counter, then what it owes;
* `InPlace`, `HearInv`: the packets on their way to a client have places in the stream, these
  grow, and no packet of the others after `pos` is left out, although a client reads nothing
  before it is accepted and nothing of its own;
* `CountInv`: a client starts the exchange only when it has found all nodes, and each of
  them was accepted before it could be found. So nobody starts before all are accepted,
  which is why nothing of the exchange is sent past a client.

With it each step of `SKNX` is a step of `Lossy` or a stutter: `Relay` of a packet of the
exchange is its `Relay`, a turn of the handshake its `Receive` or `Discard`, and an
`update()` of a client that is still counting is its `Miss` of all packets of the exchange it
has read. The theorems of `MKAProofs`, instantiated for `Lossy`, then hold of the whole
client. What timing decides is therefore only whether the exchange comes to an end, never
whether two clients end with different keys, or an online one with a key that is not
the whole group's. The stronger `ImplementsMKA`, that no packet is missed at all, is what needs
timing.

### The messages

`MessengerProofs` proves, for **every** set of clients and of senders, every number of messages,
of telegrams per message and of telegrams in a ring, and every place at which a chunk of the
server ends, `MessengerAlwaysTypeOK` without any condition and:

| theorem | statement |
|---|---|
| `MessengerAlwaysInv` | `Patient /\ Parts <= RingSize => (Spec => []MessengerInv)` |
| `AlwaysOldestFirst` | `Patient => (Spec => []OldestFirst)` |

The conditions are those under which the library keeps its promise: nobody sends before all are
online (`Patient`), and a message fits in a ring (`Parts <= RingSize`, which `OldestFirst` itself
supposes). `stream` ends at a torn telegram, and so does what is claimed.

**Argument.** What has to be shown is that neither the change of wrappers at the end of `init()`,
which everybody reaches at another time, nor a ring that is full loses anything.

* `Places`: the server is behind each client, never ahead (`NotAfter`), and a client in its
  first phase has sent nothing.
* `StreamInv`: as long as one client is not online only key packets are on the stream, because
  a client counts as waiting for all (`Quiet`, `Begun`, `KeyFirst`). `Chained` and `LastRelayed`
  say that the telegrams of a client follow one another whatever comes in between, halves
  included: a chunk that ends inside a telegram is either completed by the same client's next
  chunk or followed by another's, and then nothing more is relayed.
* `HeardKeys`: a client that completes has the key packets of all others behind it, so what its
  second wrapper takes are messages only.
* `Rings`: a ring holds what comes before the next telegram of its sender, on the stream or
  still to be relayed. A key packet is one telegram, so the rings that are destroyed with the
  first wrapper are empty and those of the second one start right. What comes before a telegram
  of a message is less than `Parts` telegrams, so the ring has room (`RingHasRoom`).
* `Given`: a ring makes a packet exactly when the last telegram of a message has come, and what
  was given grows by that message.

**Assumptions.** Apart from the two about the lock-step run, on which the theorems about `Lossy`
rest as those about `MKA` do, the proofs of these six parts use the assumptions on the constants
only (`ServerAssumption`, `RingAssumption`, `TelegramAssumption`, `FramingAssumption`,
`TPUARTAssumption`, `ReassemblyAssumption`, `MessengerAssumption`, those of `MKA`): numbers are naturals, a ring
takes a `recv` behind an unfinished telegram, or a telegram behind an unfinished header. The
inductive invariants of these modules (`IInv`, `TIInv`, `HeardInv`, `GroupInv`, `MessengerInv`) were checked by TLC on the
instances of the runs before they were proved; the runs of the finished project leave them
to the proofs.

**Only model-checked.**

* Liveness.
* `SKNX`: `ImplementsMKA`, that no client misses a packet, depends on timing or on a group
  of two.
* `Exchanges`, `RandomSource`, `CipherModes`, `Hashing`.
* The libraries except the inverse: `Bignum`, `ModArith`, `EcpReduce`, `EcpArith` and `Aes`
  use recursion over limbs, digits and rounds, and what a recursive definition computes for
  every input is out of the prover's reach.

## 5. Findings

1. `mka_peer_links`: the loop of `mka.h:216` that replays postponed points copies the point
   of the packet being processed instead of the postponed one. With the backends of the
   repository it never runs on a packet (theorem `NothingToReplay`); over links without a
   total order two members end with different keys.
2. `messenger_decrypt`: `receive()` decrypts a temporary copy of the body.

Facts met while modelling that have no run of their own, because no text of the repository
clearly promises the opposite, or because a model, or a property of another run, states what
the code does:

* The `send` of `libsmoke_server.h:166` has no MSG_NOSIGNAL and nothing ignores SIGPIPE: a
  second `send` to a client that closed its end, in the very `run()` that is about to delete it,
  ends the server for everybody (`SendKills`).
* The server relays what a `recv` returned, not telegrams (`libsmoke_server.h:145`): when a
  chunk ends inside one and another client's chunk comes next, nobody finds a header again.
  `Messenger` follows runs up to that moment (`torn`).
* A message that does not fit in the ring of its sender (1024 bytes) loses telegrams
  (`multirings.h:67`, `pktwrapper.h:120`), and the ring may never become a packet.
* `ClientSmoke::init` loses what others send before it returns (see `Patient`).
* *Serial lines.* A byte that is no opcode, as the reset indication of a chip that
  restarts, makes `_process_packet` of both TP-UART drivers loop for ever, on Miosix with
  `_mutex` held. `shutdown()` with a telegram outstanding leaves `_is_packet_outgoing` set.
  On Linux a failed `_reset` leaves `_fd` open; on Miosix a failed `init()` leaves the device
  locked (stage `refused`), and `shutdown()` by an object that does not own the device
  unlocks it. A receive thread of Miosix survives a quick second `init()`. `LinuxUART::broadcast`
  takes the -1 of `write` for success.
* *Numbers.* `mpi_inv_mod` with modulus 1 does not end. `mpi_add_abs` with all three operands
  the same object does not give the sum (`SameObject`). `mpi_div_mpi` with Q the same object
  as A or B loses the sign (`QuotientOverlaps`). `mpi_exp_mod` of a negative base and
  an even exponent gives N - A^E, where `bignum.h:645` says A^E mod N; `PowersExact` states what
  the code returns. A Miller-Rabin round refuses a prime when the base drawn is that prime.
  `mpi_gen_prime` makes a number that is too short when the generator gives 0. `mpi_gcd(A, 0)` is 0. `mpi_write_string` of 0
  in radix 16 is empty. The smallest "dh" primes of `mpi_gen_prime` can be refused for good.
* *Curves.* The comment of `fix_negative` says c * 2^(bits + 32), the code uses c * 2^bits.
  `ecp_mul` on a Montgomery group reports BAD_INPUT_DATA, which its documentation does not
  list, for an abscissa of more than pbits bits.
* *Random numbers.* `ctr_drbg_update` checks no length and overruns the buffer of the derivation
  function from 392 bytes on; `BuffersHold` is about the calls that seed and draw.
  `entropy_func` runs up to 257 times, not `ENTROPY_MAX_LOOP`.
  `DeviceConfig::random` ignores the result of the generator.

## 6. Not modelled

* **Server with a failing accept**: the code goes on with an object it has deleted; no
  outcome can be ruled out.
* **Streams after a torn telegram**, messages while clients come and go (`Server` has those), and
  `ctr_drbg_update` after an overrun: runs end there.
* **A blocked sender**: clients send without blocking in all models.
* **TP-UART after a loss**: runs are followed up to the first byte that does not reach the
  parser; a second `init()` of the same object is not followed.
* **Init and shutdown of the plain serial backends**: opening a device.
* **The compression function of SHA-512** works on 64-bit words and is free; so is the cipher
  in `RandomSource`. HMAC and most modes of AES are modelled although the program does not
  call them.
* **The numbers of the real curves**: points are checked on small ones; the reductions on
  primes of the same form in narrower words.
* **Of PolarSSL**: files (`mpi_read_file`, seed files, hashing of files), self tests, AES
  tables in ROM, AES-NI, PadLock, platform entropy and HAVEGE (switched off by the build),
  names and lists of curves, allocation that fails.
* **`bn_mul.h`**: the assembly variants of one multiplication step; the portable one is
  `MULADDC_CORE`.
* **Dummy key exchange, printing, byte order, benchmarks**: no state machine.

## 7. Plan

1. *Prove.* For `RandomSource`: `EncryptsOnce` and `BuffersHold` (`FreshlySeeded` rests on the passes of
   `entropy_func`, a recursion over their number, and stays with TLC).
2. *Extend.* Both directions of a connection with bounded buffers, for the deadlock of two
   blocking sends.
