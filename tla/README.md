# TLA+ models of Distributed_Bank

This directory holds TLA+ models of the UDP bank of this repository and
the TLC configurations that check them. The models are written from the C++
sources under `src/`. `PROJECT.json` maps every modelled definition to the
lines it translates, and it lists the runs, mutants, findings and hazards.

## The system

- **Client** (`src/client_cpp/src/client.cpp`). This is a menu-driven process with one UDP socket.
  - Each menu handler builds a request body and calls `Client::call`.
  - `Client::call` draws a random 64-bit request id. It then makes up to `retryCount` attempts. Each attempt sends the request and does *one* `recvfrom` with an `SO_RCVTIMEO` timeout.
  - A timeout, a decode failure, a non-Reply datagram or a reply carrying another request id all `continue`, which ends the attempt.
  - After an OK `MONITOR_REGISTER`, `handleMonitor` reads callbacks until `now + seconds`. No other call can run during that window.
- **Server** (`src/z_server_cpp/src/main.cpp`). This is one single-threaded loop. Each iteration does the following, in order:
  1. Sweep the subscription registry and the dedup cache of entries with `expireAt <= t`.
  2. Block in `recvfrom`.
  3. Drop the request with probability `lossReq`.
  4. Decode it and check version and type.
  5. If the request is at-most-once and its key `ip:port#reqId` is cached, replay the cached reply and skip the rest.
  6. Dispatch on the opCode to the `Bank`. Mutating operations send a callback to every registry entry.
  7. Cache the reply, for at-most-once requests only. The entry lives 60 s.
  8. Drop the reply with probability `lossRep`, or send it.
- **Ledger** (`src/z_server_cpp/src/bank.cpp`). Class `Bank` holds the account map and the allocator. Its methods are open, close, deposit, withdraw, transfer and query, each with its early-return error checks.
- **Codec** (`src/client_cpp/src/protocol.cpp`, built into client and server). It does the big-endian put/get of the 24-byte header and of the body fields: u16, i32, f64 (as bits), length-prefixed strings and the 16-byte zero-padded password.
- **Menu handlers** (`client.cpp`, `handleOpen` .. `handleTransfer`). They read the user's input, reject some of it at the prompt, build the body and parse the reply body.
- **Legacy server** (`src/server_cpp`). This is an earlier server with the same loop, dedup cache and registry, but it implements only OPEN, QUERY_BALANCE and MONITOR_REGISTER. Any other opCode gets `ERR_BAD_REQUEST` and leaves the bank as it is. The client speaks to either binary.
- **Client command line** (`src/client_cpp/src/main.cpp`). It reads `--server`, `--port`, `--sem`, `--timeout` and `--retry`. The numbers go through `atoi`, and `--sem` other than `atmost` / `at-most-once` gives at-least-once.
- **Server command line** (`main` of both servers). It reads `--port` with `atoi` and `--lossReq` / `--lossRep` with `atof`. Any other argument prints the usage and exits with 1. A datagram is dropped when `uni(rng) < p`, where `uni` is uniform over [0, 1).
- **Prompts** (`readInt`, `readDouble`, `readCurrency` in `client.cpp`). They turn typed lines into numbers with `std::stoi` and `std::stod`. An empty line, `q` or `Q` cancels, and so does a line the conversion throws on. `readCurrency` asks again until it gets CNY, SGD or q.

The parts interact only through datagrams. Several clients share the server. Replies, replays and callbacks all arrive in the same client socket queue, and the client cannot tell them apart until it reads them.

## Modules

| Module | Models | State | Actions |
|---|---|---|---|
| `Ledger` | `class Bank` | none. It is a library of operators from a store `[accounts, next]` and the inputs to `[status, store, out]` | `OpenAccount`, `CloseAccount`, `Deposit`, `Withdraw`, `Transfer`, `QueryBalance`: each early return of the code is an `IF` branch, in the code's order |
| `LedgerSpec` | the ledger driven by every request | `store`, plus `last` (the request just served and its status) | one action per opCode, with inputs drawn from small sets |
| `BankRpc` | clients, network, server loop (either binary), dedup cache, registry | `server` (which binary runs, fixed), `store`, `monitors`, `dedup`, `srvPhase`, `net` (a bag of datagrams), `rcvq` (the client socket queues), per-client `pc`, `calls`, `req`, `attempt`, `callStart`, `winEnd`, the clock `now`, and the history variables `executed`, `replied`, `sent` (the body of each call) and `ret` (how the last call ended) | `ServerSweep`; `ServerRecv` = the `lossReq` draw, then `ServerDropRequest`, or `ServerReplay` \/ `ServerExecute`; `StartCall`; `ClientStep` = `ClientTimeout` \/ `ClientDiscard` \/ `ClientAccept` \/ `MonitorRecv` \/ `MonitorEnd`; `Exit`; `Deliver`; `Tick`; `Quiescent` |
| `Codec` | `protocol.cpp` | none. Byte strings are sequences of 0..255; 32- and 64-bit values are 16-bit limbs, because TLC's integers are 32-bit | `PutBE16`, `GetBE16`, `GetLimbs`, `PutString`, `GetString`, `PutPassword16`, `GetPassword16`, `Encode`, `Decode`, and `BuildBody` / `ParseBody` over a field layout |
| `WireSpec` | one datagram from the handler that builds it to the code that reads it | `net` (the datagram in flight), `sent` (the message and fields the sender meant) | `ClientRequest` (the prompt checks of each handler, then its body), `ServerReply`, `ServerCallback`, `Receive`, `Reset` |
| `AmoRpc` | the at-most-once contract (spec sections 4.4 and 8), without a network | `ops` (the opCodes the server implements, fixed), `store`, per-client `pc`, `calls`, `sent`, `applied`, `ret` | `Issue`, `Apply`, `Return`, `GiveUp`, `Leave` |
| `Strconv` | the library conversions: `atoi`, `std::stoi`, `strtod` (behind `atof` and `std::stod`), and the binary64 bits of the result | none. Strings are byte sequences; a number is exact (sign, `num / den`, or inf / NaN) | `AtoI`, `StoI` (its `out_of_range` test is made on the digits), `StrToD`, `DoubleBits` |
| `Cli` | the client's `main` and the prompts | none | `ClientArgs`, `ClientConfig` (the timeout, retry count and semantics handed to `Client`); `ReadInt`, `ReadDouble`, `ReadCurrency` |
| `ServerCli` | the servers' `main` argument loop and the loss draw | none | `ServerArgs`, `ServerConfig`, `Draws(p)` (the outcomes of `uni(rng) < p`: never for p <= 0 or NaN, always for p >= 1, either in between) |
| `MC_BankRpc`, `MC_LedgerSpec`, `MC_WireSpec` | model values that a `.cfg` cannot write: request bodies, the command lines given to server and client, and the typed lines whose conversions give the input values | | |

In `BankRpc`, the server executes one request per `ServerRecv` step. This matches the code, where steps 3 to 8 run without yielding. The sweep is a step of its own, because the code takes `t` and sweeps *before* it blocks in `recvfrom`. The sweep follows the handling of the previous datagram at once, so `Tick` is enabled only while the server is blocked in `recvfrom` (`srvPhase = "recv"`): time passes after the sweep and before the next datagram is handled, never between a dispatch and the sweep after it.

The receive timeout is `TimeoutMs`, as `Client` sets `SO_RCVTIMEO` from it. The Windows branch is modelled: the option is a `DWORD` of milliseconds, and 0 means wait forever. So `ClientTimeout` is enabled only when `RecvTimesOut` (`TimeoutMs > 0`), and `Tick` does not bound a call that cannot time out.

The loss settings are not free constants. `BankRpc` takes the server's command line `ServerArgv` and parses it with `ServerCli`. `RequestDrops` and `ReplyDrops` are the outcomes of the draws for the parsed `lossReq` and `lossRep`, so `--lossReq 1` drops every request and `--lossReq nan` none.

`ServerExecute` is the whole dispatch. With `server = "server_cpp"` it dispatches through `LegacyHandle`, which answers `ERR_BAD_REQUEST` to the opCodes the legacy server does not implement. It updates the ledger, appends to the registry, inserts into dedup, sends the callbacks, and sends or drops the reply.

The request id is the call number `k` of the client. It stands for a fresh random id. Within one client, collisions have probability 2^-64 and are not modelled. Between two clients the ids do coincide in the model (both start at 1). That is the case where the dedup key must tell the clients apart by `ip:port`.

Doubles. In `Ledger` a balance or amount is an integer or the model value `NaN`. `DGt`, `DLt`, `DAdd`, `DSub` and `DEq` follow IEEE 754: every comparison with NaN is false, and arithmetic with NaN gives NaN. `stod` accepts `"nan"` at every amount prompt, so NaN can reach the ledger. In `WireSpec` a double is its 64-bit pattern, and `Strconv!DoubleBits` computes it from what `stod` returned. The prompt checks `< 0` and `<= 0` are decided on the bits, NaN included.

### Refinement

`MC_BankRpc` defines `AmoRefinement == Amo!Spec`, where `Amo` is `AmoRpc` instantiated with this mapping:
- `pc`: a client in a monitor window is `idle` in `AmoRpc`, because the window is not a call.
- `calls`, `sent` and `ret` map one to one.
- `applied[c][k]`: whether the server has executed call k of c (`executed[c][k] > 0`).
- `store` is the same variable.
- `ops`: the opCodes of the binary that runs, so that an unimplemented request is applied with no effect.

`AmoRpc` lets a request be applied only once. A call may `Return` only after its own request was applied, and the store changes only by `Effect` of an issued request. So the refinement fails in three cases: a duplicate execution, a reply accepted for another request, or the ledger changed by anything else.

## Runs

| Run | Config | Expect | What it shows |
|---|---|---|---|
| amo | `MC_BankRpc_amo.cfg` | pass | Either binary runs. An at-most-once client faces request loss, reply loss and late replies. Each request is dispatched at most once (`AtMostOnce`). Every reply in flight or queued equals the first reply built (`ReplayIsOriginal`). Calls and monitor windows always end (`ReturnsToMenu`). The client loop implements `AmoRpc` (`AmoRefinement`). |
| two | `MC_BankRpc_two.cfg` | pass | Two at-most-once clients with coinciding request ids share the server, under loss of requests and replies. The `ip:port` part of the dedup key (`ClientKey`) keeps their entries apart, and a replay goes to the sender: every reply a client can read is its own (`ReplayIsOriginal`), and together they implement `AmoRpc` (`AmoRefinement`). The type invariant and `AtMostOnce` are left to amo: a key collision between clients makes the server execute less, not more. |
| cbttl | `MC_BankRpc_cbttl.cfg` | violation | `CallbacksOnlyToLive` fails: a callback is sent to a subscription that expired while the server was blocked in `recvfrom`. |
| lossless | `MC_BankRpc_lossless.cfg` | violation | `NoDuplicateWithoutLoss` fails. Nothing is lost, yet an at-least-once request is executed twice, because a callback in the queue made the client resend. |
| ttl | `MC_BankRpc_ttl.cfg` | violation | `AtMostOnce` fails when a call outlives the 60 s dedup entry (`retryCount * timeoutMs` > 60 s, which the client's options allow). The reply is lost. A resend after the TTL is dropped by `lossReq`, and the sweep that follows it removes the entry (the sweep runs only after a datagram is handled); the next resend is executed a second time. |
| ledger | `LedgerSpec.cfg` | pass | Covers the requests the menu can build with finite amounts; the initial `nan` the menu also accepts is the nan run's case. No overdraft. Only the holder's credentials debit an account. Closed accounts are frozen. The total changes exactly by opens, deposits and withdrawals (`MoneyAccounted`, which covers the spec's section 8 transfer conservation). |
| negopen | `MC_LedgerSpec_negopen.cfg` | violation | An OPEN carrying initial = -1, as any UDP sender can send it, produces a negative balance. |
| nan | `MC_LedgerSpec_nan.cfg` | violation | `TransferConserves` fails. The initial balances come from the lines `0`, `-1` and `nan` through `readDouble` and the menu's `< 0` check. An account opened with initial `nan` passes the client's `< 0` check and the ledger. A transfer from it passes `balance < amount`, so the sum of the two balances changes. |
| wire | `MC_WireSpec.cfg` | pass | For every request, reply and callback over edge values: the datagram is at least 24 bytes and decodes to the message sent (`RoundTrip`). The receiver's parse gives exactly the fields the sender meant (`FieldsAgree`). |
| wire_secs | `MC_WireSpec_secs.cfg` | violation | `FieldsAgree` fails for a monitor period of 65536 s: the client sends `(uint16_t)seconds` = 0. |
| wire_pw | `MC_WireSpec_pw.cfg` | violation | `FieldsAgree` fails for a 17-byte password typed at CLOSE .. TRANSFER: it is cut to 16 bytes on the wire. |
| hang | `MC_BankRpc_hang.cfg` | violation | `ReturnsToMenu` fails for `client --timeout 0.5 --retry 2`. The options go through `Cli!ClientConfig`, and `atoi("0.5")` is 0. `SO_RCVTIMEO` 0 means no timeout, so one lost request leaves the client blocked in `recvfrom` forever. The run has `CHECK_DEADLOCK FALSE`, because a blocked client with nothing in flight is exactly the behaviour shown. |

Each property of a passing run has a mutant in `PROJECT.json`. A mutant is a plausible bug in the mapped code, and TLC must catch it. The mutants are:
- a missing dedup lookup;
- caching the reply skeleton;
- a `<=` in the attempt loop;
- an attempt loop that never advances the attempt counter;
- a reply check that ignores the request id;
- a dedup key without the client address;
- an allocator that never advances;
- an off-by-one funds test;
- authenticating against the destination account;
- debiting a copy of the source account;
- a lookup that ignores `closed`;
- a 32-bit length that counts the header;
- a little-endian `getBE16`;
- a server layout with two fields swapped.

### Bounds

**amo:**
- one at-most-once client; two calls; two attempts; TTL 2 ticks; CallSpan 1; MaxTime 3;
- requests OPEN, DEPOSIT on 10001, and MONITOR for 2 s.

This reaches the following cases:
- loss of the request and of the reply on every attempt;
- a replay;
- a late reply arriving in the next call or in a monitor window;
- a callback to the client itself;
- under the legacy server, DEPOSIT answered with `ERR_BAD_REQUEST`.

About 261k distinct states, over both binaries.

**two:** two at-most-once clients, one call each, two attempts, loss of requests and replies, MaxTime 2. Both clients' first request has id 1, and one client's MONITOR window can receive the other's callbacks. About 153k distinct states.

**cbttl and lossless:** the same client under at-least-once, with no loss and MaxTime 4. That is the smallest setting where a subscription expires while the server waits.

**ttl:** one call, three attempts, loss of requests and replies, a TTL of 1 tick and calls lasting 2 ticks.

**hang:** one client, one call, request loss only, and the options `--timeout 0.5 --retry 2` parsed by `Cli`. One lost request is enough.

The other `BankRpc` runs use `TimeoutMs = 500`, the client's default, and the new `z_server_cpp`. The server's command line is `--lossReq 0.3 --lossRep 0.3` for amo, two and ttl, none for cbttl and lossless, and `--lossReq 0.3` for hang.

**ledger:**
- two names; passwords `"pw"` and `""`; two currencies;
- initial balances {0, 1}; amounts {0, 1}, where 0 is the rejected amount;
- at most 2 accounts, with balance at most 2.

This reaches every error path of every Bank method. About 74k distinct states.

**wire:**
- the name "a"; reply texts "" and "ok";
- passwords of 1 and 16 bytes (the `wire_pw` run uses 16 and 17);
- account numbers typed as `10001` and `2147483647`, through `readInt`;
- the doubles typed as `0`, `1.0`, `-1e0` and `nan`, through `readDouble` and `DoubleBits`;
- the currencies of the answers `CNY` and `EUR` then `sgd`, through `readCurrency`;
- seconds typed as `1` and `65535` (the `wire_secs` run uses `65536`);
- request ids 0 and 2^64 - 1.

These are the edges of every field kind. About 1.4k distinct states.

### Fairness

The server loop, the kernel and the clock are weakly fair:
- the server never stops reading;
- a queued datagram is delivered;
- the receive timeout fires;
- time passes.

The user is not assumed to be fair. `StartCall` and `Exit` are not fair, so a client may stay at the menu forever. `Quiescent` is the final state: every client has exited, and the server is blocked in `recvfrom` forever.

## What is not modelled

- **Malformed datagrams.** In `BankRpc` the clients send only well-formed requests. `WireSpec` covers decoding of what the code sends, not of arbitrary bytes.
- **`sendto` failures.** A failed `sendto` in the server is a lost reply or callback, which `ReplyDrops` covers. In the client a failed `sendto` ends the attempt without waiting; the model covers it as a lost request, which also ends the attempt, after the timeout.
- **Socket setup** (`WSAStartup`, `socket`, `bind`, and the client's `inet_addr` / `inet_pton` of `--server`). A failure only prints an error and exits with 1, and success only fixes the addresses. The ports play no part in the model. The legacy server's argument loop is the same text as that of `z_server_cpp`, which `ServerCli` maps.
- **The legacy server's own copies** of the loop (`src/server_cpp/src/main.cpp` up to the dispatch) and of `Bank::openAccount` / `Bank::queryBalance` (`src/server_cpp/src/bank.cpp`). They are the same text as in `z_server_cpp`. `BankRpc` runs them through the same actions and `Ledger` operators, which are mapped to the `z_server_cpp` lines.
- **The hexadecimal form of `strtod`** (`0x...`). `StrToD` stops the check with an assertion if an input has this form. No input of the model does.
- **`ERANGE` in `strtod`**, and `atoi` beyond int. The model's inputs are short enough that neither happens.
- **The POSIX branch of the receive timeout.** A `timeval` of 0 also waits forever, but the behaviour for negative values depends on the kernel.
- **The 2048-byte receive buffers.** Every body the menus can build is far smaller, so the buffers are not modelled.
