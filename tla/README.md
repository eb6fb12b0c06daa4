# Verification of hotspot-be

hotspot-be is the backend of a hotspot business: tenants own MikroTik routers,
generate access vouchers, sell them, take mobile-money payments and withdraw
their earnings. It is a Go/Fiber HTTP server over PostgreSQL (gorm), reaching
routers through a WireGuard tunnel with the RouterOS API, and the Flutterwave
gateway over HTTPS. This directory holds TLA+ models of it, TLC configurations
that check them on small instances, and TLAPS proofs about them for all
instances. Every invariant, every safety property of steps and every refinement
that a passing run checks is also proved for all instances; liveness is
model-checked only (section 6).

## 1. Inventory

Paths are below `src/modules/` unless they start with `src/`.

| component | state | operations | interacts with |
|---|---|---|---|
| ledger (`transactions`) | `transactions` rows, each with the running balance of its tenant | `CreateTransaction`, lists and reports | called inside the transactions of payments and disbursements |
| payments | the payment at the gateway; `companies.balance` | `Charge`, `Verify`, `ApplyTopupBalance` | gateway, ledger, company |
| disbursements | `disbursements` rows; `companies.balance` | `CreateDisbursement`, list | ledger, company |
| vouchers | `vouchers` rows (soft delete) | create, edit, delete, restore, bulk forms, lists | packages, users; the row is shared with sales, provisioning and telemetry |
| sales | the same `vouchers` rows | sell (row lock), edit, delete, restore, statistics | vouchers, settings, router |
| packages | `packages` rows | create, update, toggle, delete | vouchers and hotspot profiles refer to them |
| settings | `settings` rows, unique `(key, user_id)`, soft delete | upsert, bulk upsert, delete | payments (secret key), sales (auto-provision) |
| router credentials (`router/services.go`, `crud.go`) | credential columns of the `vpns` row; the password on the device | rotate, confirm, CompleteVPN | device over the tunnel |
| router vpn (`router/services.go`, `wgserver.go`, `vpn_lan_alloc.go`) | `vpns` rows, the peers of the kernel's WireGuard interface | create, get script, complete, delete, rehydrate at start | kernel, device |
| hotspot and remote access (`router/hotspot.go`, `remote.go`) | hotspot users, profiles and firewall rules on the device; flags in the database | provision, remove, enable, disable | vouchers, device |
| telemetry (`router/poller.go`) | `router_stats` rows, `vouchers.first_login` | periodic poll, prune | device, vouchers |
| accounts (`auth`, `users`, `middleware`, `shared`) | `users`, `companies`, membership | signup, login, Google login, add, edit, remove member, token check | every module takes its tenant from the token |
| roles | `roles` rows | seed, create, update, delete | users |
| dashboard, support, base, `src/app.go`, `src/config` | none of their own | read-only queries, response plumbing, route table, schema migration | all |

What is hard here:

- **Interleaving.** Every request is a goroutine, and almost every handler is a
  sequence of separate SQL statements at READ COMMITTED, where a plain SELECT
  takes no lock. Read-compute-write sequences are everywhere: the ledger's
  running balance, the company wallet, gorm's `Save`, which writes back *every*
  column of a row read earlier.
- **Three stores that no transaction spans**: the database, the kernel's
  WireGuard peers and the devices. Handlers write one, then the other.
- **Failure.** Requests die between statements; the server restarts and loses
  the kernel's peers; a device may apply a command whose answer is lost.
- **Soft delete.** A deleted row stays in unique indexes, leaves the default
  scope and may be restored or resurrected by a stale `Save`.
- **Background loops.** The telemetry poller and the rehydration at start run
  beside all handlers.

What makes each component correct is stated with its module below. `PROJECT.json` lists the hazards with
the line each one bites at.

## 2. The wallet

### Modules

| module | content |
|---|---|
| `Wallet` | payments, ledger, company wallet and disbursements as concurrent requests, statement by statement |
| `Account` | what a wallet promises: atomic `Credit` and `PayOut` |
| `WalletRefinement` | the mapping under which `Wallet` implements `Account`, for serial tenants and for all |
| `MCWallet` | instances for TLC |
| `WalletProofs` | proofs about every tenant: types, what the ledger's rows say of each other, what backs a wallet |
| `WalletSafety` | proofs about serial tenants: payments credited once, no overdraft |
| `WalletImplements` | proofs about serial tenants: chain, mirror, drift, what was collected, how a commit moves both, and the refinement of `Account` |

### State and actions

| model | code |
|---|---|
| `gateway[key][r]` | status of the payment with reference `r` in the Flutterwave account of `key` |
| `Keys[t]` | the keys requests of `t` may carry: the environment's, which tenants share, and from some time on one of its own (`secretKey`, payments/services.go 30-51) |
| `ledger`, `payouts`, `wallet` | committed rows of `transactions`, `disbursements`, and `companies.balance` |
| `draft[s]` | ledger rows inserted by the open transaction of connection `s` |
| `call[s]` | local variables of the handler on `s`; `pc` is its next statement |
| `Charge`, `Settle` | `POST /payments/charge`; the customer's answer (external) |
| `Verify`, `Lookup`, `ReadLast`, `InsertEntry`, `ReadCompany`, `SaveCompany`, `Commit` | `Verify`, payments/services.go 239-361, with `CreateTransaction` inlined |
| `CreateDisbursement`, `CheckFunds`, `InsertPayout`, `ReadLast`/`InsertEntry` twice, `SaveCompany`, `Commit` | `CreateDisbursement`, disbursement/services.go 101-193 |
| `Rollback` | an error return inside the transaction, a lost connection, a killed server |

One action is one SQL statement. A statement sees committed rows and its own
transaction's; an UPDATE of the company row waits for a transaction that wrote
it (`HoldsRow`); COMMIT publishes all rows at once. Ledger amounts are float64
in the code and are counted in tenths here, enough to tell rounding from
truncation; the wallet is an int of whole units. Left out: the currency label,
names, phone numbers, the HTTP exchange with the gateway, whose answers other
than "successful" end the request without touching state. `Verify` may ask about
any reference, whoever charged it, and is answered from any account it has a key of. A disbursement is
named by its row id, standing for `generateTransactionID`, whose wraparound is
therefore not modelled (see the hazards).

`Serial` is the set of tenants whose clients wait for an answer before they send
the next request, what the code's comments silently assume; `Orphan` the tenants
whose signup died between the user and the company (auth/services.go 54-63).
Both are constants, so a run can have a serial tenant beside one that is not.

### Runs

| run | instance | shows |
|---|---|---|
| `wallet_requests` | 2 connections, 2 tenants with the shared key, one serial, 1 payment, 2 disbursements, 1 failure | for the serial tenant: chain, single credit, mirror, no overdraft, no more credited than collected, wallet and ledger moved by the same money in each commit; for both: disbursements are all-or-nothing, no wallet exceeds the payments in its ledger, entries build only on earlier committed entries of the same tenant |
| `wallet_promises` | 2 connections, 2 serial tenants, one without a company and with a key of his own later, a payment with a fraction, 2 disbursements, 2 failures, fair | `Wallet` implements `Account`; a settled payment that is asked about again and again is credited in the end; wallet and ledger drift by at most half a unit per payment |
| `wallet_overlap` | 2 connections, 1 tenant | **violated**: without the restriction to one request at a time the wallet does not implement `Account`: overlapping verify calls credit a payment twice |
| `wallet_shared_key` | 2 connections, 2 serial tenants with the shared key | **violated**: one payment credits both tenants |

The violations are listed as findings. The first has its root in reads that take no
lock, those that Verify, CreateTransaction and CreateDisbursement compute from;
overlapping disbursements overdraw, break the chain and lose updates of the wallet in
the same way, each of which `EveryWalletIsAnAccount` excludes. What
is stated of serial tenants holds for the others only as far as the table says. The
second needs no overlap: the check for an existing entry looks in the caller's own
ledger, and tenants without a key of their own see the same payments.

`WalletIsBacked` is a bound from above only: it does not notice a lost deduction, which
leaves a wallet too high but still below what came in.

Bounds. `MaxPayouts` bounds disbursement rows and `MaxFaults` failures; payments
are bounded by the gateway (a reference is charged once with each key). Two connections are
enough for any race of two requests, one failure reaches each gap between two
statements, a second payout is needed for the overdraft and the mirror. The
price 2600.0 covers a payout of 2500 with its charge of 100 exactly, so the
funds check is met at its boundary; 3100.9 exercises the rounding.
`CHECK_DEADLOCK FALSE`: clients stop when the bounds are reached. No waiting
can deadlock inside a request, since a transaction locks one company row only
and does so last.

Fairness. `Progress` is weak fairness of each connection's next statement: the
server runs a started handler. Nothing makes anybody call Verify again (the comment
at payments/services.go 285-288 even says that an error makes the frontend
abort), so `SettledIsCredited` has that as its hypothesis: if a payment is
verified infinitely often, it is credited.

### Proofs

All theorems hold for any constants that satisfy the named assumptions of
`Wallet`: any number of connections, tenants, payments, payouts and failures.

`WalletProofs` is about all tenants, whose requests may overlap. `TypeCorrect`
proves `TypeOK`. The inductive invariant `TypeInv` adds `CallShape` (a
disbursement's reference is a number) and `RowsOrdered` (an open transaction holds rows of its own tenant, and every set whose
last row `CreateTransaction` takes has one), without which the balance read could
not be shown to be an integer: rows are sets, and `Latest` is a CHOOSE.

`PayoutsBooked` and `LedgerIsGrounded` share the invariant `BookedInv`. It adds what an open
transaction holds at each step (`CreditRequest`, `PayoutRequest`: which rows of
the request are written, and that a verification got past the gateway's answer),
that the balance it is about to build on is that of a row it sees (`LastIsRead`),
that the ledger with its draft is `Grounded`, that every topup was answered
"successful" (`SettledTopups`), and that no row is in two
transactions (`Untangled`). The committed rows are sound because COMMIT adds one
sound draft to a sound ledger, whatever the reads before it missed.

`WalletsAreBacked` says that however requests overlap a wallet is at most the rounded sum of the payments in its
ledger. `Backed` states this also of the wallet a request has read
(`seen`), which a stale `SaveCompany` writes back. The sum, `Credited`, is a fold
over a set, and an induction over its size is not available here. The lemma
`SmallestSet` replaces it: if some finite set of rows violated a claim, one of
least size would, and `SumRecurses` takes a row out of that one. `CreditedNat`
(the sum is a number), `CreditedMore` (one more row adds its amount) and
`CreditedGrows` (more rows, no smaller sum) are shown that way.

`WalletSafety` proves, for any number of connections, tenants and payments,
that a serial tenant's payment is credited once (`PaymentsCreditedOnce`) and
that its wallet is never overdrawn (`WalletNeverOverdrawn`). Neither is
inductive: both depend on what a handler has read earlier still being so. The
invariant `Inv` adds `Alone` (one request of a serial tenant at a time),
`VerifyKnows` (past its lookup a verification's payment is not in the ledger and
its one draft credits it), `PayoutKnows` (past its check a disbursement's
`seen` is the wallet and covers the total) and `TotalKnown` (totals are whole,
so the wallet loses exactly what it was compared with). The frame lemma
`KnowsFrame` carries this knowledge over other requests' steps: they touch
neither the tenant's committed rows nor its wallet. There is one lemma per
action.

`WalletImplements` proves the rest about serial tenants, on top of both
invariants. `ExactInv` says that the committed rows of the tenant, and what an
open transaction sees of them, are `Chained` (each row continues the one before
it), that the wallet mirrors the last balance unless a payment had a fraction,
and that the drift is at most half a unit for each payment. From it follow
`SerialLedgerIsChain`, `SerialWalletMirrors` and `SerialDriftIsBounded`, and
`WalletImplementsAccount`: under the mapping of `WalletRefinement` the COMMIT of a
verification is an atomic `Credit`, that of a disbursement a `PayOut`, and every
other step, failures included, a stutter. That the payment a COMMIT credits was
not credited before comes from `VerifyKnows`, that the payout is covered from
`PayoutKnows`.

`CreditsAreCollected` compares sums: what a serial tenant was credited is at most
what the accounts it can see have collected. `CollectInv` says that its topups
add up to the same as their `Receipts`, one for each payment, because no payment is
credited twice; and receipts are among the payments collected (`ReceiptsCollected`,
from `SettledTopups`), so `CreditedGrows` bounds one sum by the other.
`WalletMovesWithLedger` proves `PostedTogether`: only a COMMIT writes ledger or
wallet (`PostingStep`), and for a serial tenant `VerifyKnows` and `PayoutKnows` say by
how much (`MovesStep`).

Model-checked only: `SettledIsCredited`, liveness.

## 3. Vouchers and their way to the routers

### Modules

| module | content |
|---|---|
| `Vouchers` | the `vouchers` table under generation, sales, edits, trash and restore |
| `CodeStock` | what a stock of codes promises: `Generate`, `Sell`, `Trash`, `Restore` in one step each |
| `VoucherStock` | the mapping under which the table implements the stock |
| `Provisioning` | extends it with the hotspot users and sessions of the routers, provisioning by a sale or by hand, and the telemetry poller; everything shares the voucher row |
| `VoucherProofs` | the proofs about both |
| `MCVouchers`, `MCProvisioning` | instances for TLC |

### State and actions

| model | code |
|---|---|
| `row[v]` | the committed `vouchers` row `v`; an edit saves all its columns, so they are in one record although several components write them |
| `call[s]` | local variables of the handler on connection `s` |
| `claimed[v]` | history: how many sales committed on the row (two stands for more) |
| `Create` | `POST /vouchers`, one INSERT for the whole quantity, codes drawn freely |
| `Sell`, `Lock`, `Mark`, `Answer` | `createSale`: the snapshot of `SELECT ... FOR UPDATE`, the wait for the row lock with the second look at the row (or the next candidate), UPDATE and COMMIT, the answer |
| `Edit`, `Save` | `PUT /vouchers/:id`: read, then write every column back, which also brings back a row trashed in between (gorm's Save falls back to an upsert) |
| `Delete`, `Restore` | the trash routes of both modules and their bulk forms, each one UPDATE |
| `Provision`, `RemoveStale`, `AddUser`, `Record` | `provisionOnRouter` and `ProvisionHotspotUser`; the same steps serve `ProvisionUser` and `ProvisionName`, the router page |
| `RemoveUser`, `Unrecord` | `RemoveHotspotUserHandler` |
| `Login`, `Logout` | customers (external) |
| `Poll`, `MarkFirstLogins` | the poller's question to a router and `markVoucherFirstLogins` |
| `Die` | a request dies; an open transaction is rolled back |

A command to a router may be refused, or executed with its answer lost. Left
out: the columns no other step reads (format, note, agent, payer, channel, and
so `PUT /sales/:id`, which writes only these), the hotspot profile
but for its failure. The page may give a user another name than the voucher's
code, and the device's copy carries it. The expiry is in `Plans`. The row
lock of a candidate that a sale rejects is released at once instead of at the
end of its transaction, which only lets others run earlier.

### Runs

| run | instance | shows |
|---|---|---|
| `vouchers_edited` | 2 connections, 2 packages, 2 vouchers, edits allowed | what a sale holds in its transaction is live, unsold and what was asked for until it commits |
| `provisioning_routers` | 2 connections, 1 router, 1 voucher, no edits, fair | no code is sold twice and the table implements `CodeStock`: provisioning, removal, logins and the poller never undo a sale; every request ends; a customer who stays logged in is seen |
| `vouchers_sold_twice` | edits allowed | **violated**: an edit overwrites a sale, the code is sold again |
| `provisioning_sync` | 1 connection, 1 router | **violated**: a voucher recorded as provisioned that no router has |

Bounds. `MaxVouchers` and `MaxQuantity` bound generation. Two connections and two
vouchers let a sale wait for a row while another candidate is trashed or restored;
two packages let an edit move a voucher out of a sale's reach. For more
connections, vouchers and routers, all but liveness is proved. Where routers are
added, one voucher is enough for everything that writes its row at once. With one
code every user has its name; other user names, equal codes and other tenants are in
the theorems only, which leave no constant fixed. Equal codes matter: `MarkFirstLogins`
asks for the name alone, so a session stamps every voucher of that code, of other
tenants too (poller.go 153). Deaths
need no bound: they leave no trace in the state.

Fairness. Strong fairness of each connection's next statement: a server runs
what it started, and PostgreSQL queues the waiters of a row lock, so a waiting
statement gets its turn although other sales lock the row again and again. The
poller goes round all connected routers for ever (poller.go 52-92), so each is
asked again and again: strong fairness of `Poll(r)` and of the UPDATE after it.

### Proofs

`VoucherProofs` proves, for any number of connections, tenants, codes and rows,
`TypeOK` (`VouchersTypeCorrect`) and `SaleIsFair` (`SalesAreFair`), and where
nobody edits, `SoldOnce` (`CodesSoldOnce`) and the refinement of `CodeStock`
(`VouchersImplementStock`): initial states map to initial states, and every
step is a step of the stock or stutters. The assumptions are the named ones of
`Vouchers`; `Editor = {}` is an assumption of the last two theorems because an
edit does break them (`vouchers_sold_twice`).

The same four are proved of `Provisioning` (`ProvisioningTypeCorrect`,
`ProvisionedSalesAreFair`, `ProvisionedCodesSoldOnce`,
`ProvisioningImplementsStock`), with any number of routers, sessions and polls
beside the table, and deaths between any two statements.

`SaleIsFair` is not inductive: a sale could lock a row that another sale has
already locked, or write to a row that does not exist. The invariant `Inv` adds
`OneLock`, that two sales never hold one row, and `Remembers`, that a waiting
sale has existing candidates left and an edit a row to write back. For
`SoldOnce`, `Claims` relates the history to the rows: what was claimed exists
and is marked as used. Which candidate a sale tries next is a CHOOSE of a least
id; `OldestIs` shows that there is one.

`PInv` adds to `Inv` only that users, sessions and reports are named by codes.
What `Record`, `Unrecord` and `MarkFirstLogins` write to the shared row is
`Harmless`: a column that no sale's search looks at, in a row that exists, and
never one a sale has locked, because the UPDATE waits for the lock. `PSteps` sorts
every step into one of the table's own, one that writes no row, or a harmless one,
and each of the three keeps `Inv`, `Claims` and the stock. That is the reason the
poller and the router page need no lock of their own, and it does not extend to
`Edit`, which saves the columns a sale decides by.

Model-checked only: `RequestsAnswered` and `FirstLoginSeen`, liveness.

## 4. The fleet: routers, tunnel and credentials

### Modules

| module | content |
|---|---|
| `Fleet` | VPN rows, kernel peers and devices under creation, bootstrap, deletion, restart, rehydration and rotation |
| `FleetProofs` | proofs for every instance |
| `MCFleet` | instances for TLC |

### State and actions

| model | code |
|---|---|
| `site[r]`, `vpn` | the router's row (`none`, `live`, soft-deleted) and the `vpns` rows by id |
| `route[a]` | the peer the WireGuard interface routes address `a` to: kernel memory |
| `device[r]`, `script[r]`, `report[r]` | what the device is configured with, the script it downloaded, the key it is reporting |
| `handed[r]` | passwords handed to the operator |
| `owner`, `mixed`, `renewal[r]` | histories: the router each password came up for; routers of which one was confirmed a password of the other; how far an undisturbed provisioning has come |
| `call[s]`, `up` | local variables of request or push `s` (`copy` is the row it read); the server accepts requests |
| `CreateRouter`, `CheckStatus`, `PickAddress`, `InsertVPN` | `POST /router`, and the status and dashboard pages, which create a missing VPN row; `allocateVPNAddress` reads outside any lock |
| `FetchScript`, `Upgrade`, `SendScript` | `GetVPNScript`: fills in credentials, then the LAN, one Save each |
| `Import`, `LoseMessage`, `Report`, `AddPeer`, `Connect` | the script on the device, its callback, `CompleteVPN` |
| `Delete`, `DeleteRows` | `DELETE /router/:id`; the peer stays (`RemoveServerPeer` is called by nothing) |
| `Restart`, `Rehydrate`, `Push`, `SkipPeer` | a restart with the interface surviving or not, `NewService` at boot and inside every sale that provisions, the loop of `RehydratePeersFromDB` |
| `Rotate`, `SetPassword`, `Verify`, `ConfirmRotation`, `Confirm`, `Store`, `ApplyByHand` | rotation of a connected router, and of one the operator has to configure by hand. `ConfirmRotation` stores any password that ever came up: the route takes what the request carries |
| `Die` | a request ends between two steps |

Keys and passwords are numbers in the order they were generated: random ones do
not repeat. A command is answered by a device that the address is routed to, that
has the address, and knows the password (`Answering`). Left out: what of the
script sets up the hotspot, the shell commands behind the interface, the tokens.

### Runs

| run | instance | shows |
|---|---|---|
| `fleet` | 2 connections, 2 routers, 1 address, 2 rows, keys and passwords | `OwnDevice`, `Renewed`, and the types |
| `fleet_routes` | 2 connections, 2 routers, one of which may lack its row, 2 addresses, 2 keys, 1 password, fair | `RoutesSettle` |
| `fleet_interrupted` | 1 connection, 1 router | **violated**: an interrupted rotation leaves the stored password out of sync |

One router was connected before credentials and LANs existed (row, key, no password).
With one address for two routers the second row takes the address of a deleted
one while a request or a push holds a copy of it.

- `OwnDevice`: with an address and a password from a router's row, no other
  router ever executes a command, although addresses are picked without a lock
  and handed on while the old peer is still on the interface. What saves the
  code is the password. It fails, and the property leaves out, where somebody
  confirms a password of one router for another (`mixed`), which the route accepts.
- `Renewed`: passwords do get lost, in an interrupted rotation (`fleet_interrupted`;
  services.go 1146-1148 says that they do not) or when `Connect` writes back the row it
  read before a rotation (835-837 says that it does not). Whatever was lost, a
  provisioning repairs it: when a script that was fetched while nothing else was under way has been
  imported, device and row have one address and one password, and when its report
  has been stored one key, until something else happens to the router.
- `RoutesSettle`: after a time without failing pushes and without rotations being
  confirmed by hand, with sales that keep provisioning, every stored peer whose address is its own is routed for good,
  whatever late and stale pushes did. A deleted router's peer may take an address
  from its new owner; the next rehydration gives it back, as deleted rows are not
  pushed again. Confirmations are a hypothesis because TLC found that without it the
  property fails: each saves the whole row it read, so that two which overlap for ever
  can keep an old key alive.

`Step` is weakly fair: the process schedules its goroutines, and every step of
a request is enabled until it is taken. The three hypotheses of `RoutesSettle` are
in the property, since none is anything the code provides.

### Proofs

`FleetProofs` proves `FTypeOK`, `OwnDevice` and `Renewed` for any number of
routers, connections, addresses, rows, keys and passwords (`FleetAssumption`
alone). `OwnDevice` is not
inductive: a device can get a password from its script, by hand or from a rotation
that started long ago, and a row from a stale copy. The invariant `Inv` adds

- `GoodIn`: what a request may rely on between its steps. It works on a row of its
  own router, the copy it holds is of that router, and its value is an address, a
  key or a password, as its step needs;
- `Apart`: a password suits the router it came up for, wherever it is: in a row,
  live or deleted, in a copy, in a request's value, in a script, in the operator's
  hands or on the device (`Knows`); or one of the two routers is `mixed` (`Suits`).

Nothing in it says who has which address: the proof holds with peers routed anywhere.
`StayApart` and `FreshApart` reduce `Apart` to what one step teaches; `CallOnly`,
`RowsWritten`, `RowsKept` and their special cases are the steps that write requests,
rows and the field; then there is one lemma per action. `StepSetPassword` is the
step where the property is used itself: the device that takes the new password is
the row's.

`ProvisioningRepairs` needs, on top of `Inv`, what is so while a provisioning is
undisturbed (`Renewing`): the one request about the router is the script's or the
report's and works on the row as it is (`OneRequest`), a script under way says what
the row says (`ScriptFits`), and so does the device once it has imported it
(`DeviceFits`) and reported (`KeyFits`). `Untouched` and the lemmas after it show that
requests about other routers change none of this: they save their own rows, and a
password they set reaches their own device (`AnswersOwn`).

Model-checked only: `RoutesSettle`, liveness.

## 5. Parts that share no state

`MCParts` explores one part at a time (`part`), in the run `parts`. Its
specification has no fairness: the two liveness properties state the fairness of
their part themselves.

| module | models | properties |
|---|---|---|
| `Settings`, `SettingStore` | saves of one key or a tab in one transaction, keys in any order, the row locks, deadlocks, deletion | `ImplementsStore`: a save takes effect as a whole or not at all; `SavesAnswered`: saves that wait in a circle are resolved |
| `Roles` | seeding, create, update, delete, bulk delete | `BuiltInStays`; `NamesStayApart`: a name has one role, unless it was renamed to or two requests found it unused at once |
| `Accounts` | sign-up, Google login, invitation, editing, removal of members, lookups that fail | `AccountsStayApart`: an address has one account, unless a lookup failed, two requests found it unused at once or an owner edited it; `CredentialsKept`: stale saves lose no password |
| `Plans` | packages, and three readings of their duration | `NeverCutShort`: the router's limit is never less than the time from sale to expiry |
| `RemoteAccess` | listing, removing and adding firewall rules command by command, the flag, PUT, a re-imported script | `OneRunRepairs`: one undisturbed run puts right whatever was left; `CloseSucceeds`: who keeps asking gets the ports closed |
| `Lan` | the network of a VPN row and what the script makes of it | `LansApart`, `LanInOrder` |
| `Telemetry` | polling, samples, pruning, the chart | `ChartIsTrue`: never more traffic than there was, over reboots and pruning |

How the state corresponds to the code: `setting`, `role`, `user`, `plan` and
`stats` are the rows of the tables of these names, and `saving`, `asking`,
`visit`, `editing`, `request` and `sample` the local variables of the handler on a
connection (or of the poller). `rules` are the device's firewall rules, whose ids
are drawn in the order of its list; a `request` holds the rules it saw and still
has to `remove`, ports before blocks and in that order, and the kinds to `add`;
`flag` the router's `remote_access` column, `counter` RouterOS's byte counter.
A deleted setting stays in the unique index, so saving its key again is answered
with an error for ever (settings/services.go 144): `Clash`. The histories `raced` and
`unsure` collect the names and addresses that overlapping requests, or a failed lookup,
found unused, `edited` the users an owner set out to edit.

Bounds. Two connections everywhere, for every race of two requests; two keys and
two values, so that two tabs can deadlock; one address and three users, since
the first of several rows with an address matters; two roles, of which one may
be renamed (`MaxRenamed`) and one user edited (`MaxEdited`); two requests to open
the ports or imports, and any number to close them; three samples with a history
of two, so that the oldest falls out of it. `VPNId` holds ids at each boundary of
the arithmetic. The durations are "2 HRS", the form packages store, "1DAYS" and
"1H 30M": a duration is its amounts, whether it is one of the long words, and which
units have a blank before them, since that is what the three readers tell apart.

Comments that the code does not keep, in cases the models contain and the properties
name or tolerate:

- "the package's duration is honoured the moment the code is sold"
  (sales/services.go 446-447): `parseDuration` forgets the amount at the blank of
  "2 HRS", and the sale keeps the expiry of the day the code was generated.
  `NeverCutShort` covers this: such a code runs out in the database before it does on the
  router, never after.
- "Creates the setting when it does not exist yet" (settings/services.go 52-53): one that
  was deleted can never be created again (`Clash`).
- "Seeding is idempotent" (roles/services.go 40-41): two first requests both create the
  built-in role (`raced`).
- a Google login links an existing account "rather than creating a duplicate row"
  (auth/services.go 208-209): one whose lookup fails makes a second account (`unsure`).
- "vpnID=1 -> 10.0.1.0/24" (vpn_lan_alloc.go 45): `AllocateLANCidr` gives it 10.0.2.0/24.

Fairness. `SettingsFair` is strong: PostgreSQL queues those waiting for a lock,
and detects deadlocks, so a statement that becomes possible again and again is
executed. `RemoteFair` is strong: of commands sent again and again some are
answered.

### Proofs

`RouterProofs` has three parts. `LansAreApart` and `LansAreInOrder` hold for any
set of ids. The invariant is that a network is 0 or the one allocated to its id;
the lemmas show that slots of ids less than 65535 apart differ, and that a slot
determines its network. The id 2559 (and one in 65535 after it) gets 10.10.0.0/24,
the subnet of the tunnel itself; `LanInOrder` says so exactly. `ChartsAreTrue`:
any two stored rows that were read are `Consistent` (same boot: the counter's
difference is the traffic; otherwise the later counter is at most it), and each
row is `Behind` the counter, so a row appended later is consistent with all;
pruning takes the oldest away. `OneRunIsEnough`: while nothing has disturbed a
request, what the device has is what the request saw without what it has
removed, and with what it has added (`Opening`, `Closing`).

`SettingsProofs` proves `SettingsTyped` and `SettingsImplementStore`, for any keys,
values, tabs and connections. `PartOf`: a transaction has written a part of its
tab, with the tab's values, and the key it looks for is not among them;
`LocksApart`: no row is locked twice. With both, COMMIT applies the tab to rows
nobody else has changed since, which is the store's `Save`.

`TenantProofs` proves the properties of `Roles`, `Accounts` and `Plans`, for any
names, addresses, durations and connections. For `NamesStayApart` and
`AccountsStayApart` the invariant counts the rows together with the requests that found
none and are about to insert one (`NameHeld`, `AddressHeld`): there is at most one of
both together, or the name is in `raced` and the address in `unsure`. `CredentialsKept`
needs that the copy a handler is about to save has its row's password (`Knows`).
For `NeverCutShort` each code carries the durations it was generated, sold and
handed to a router for (`CodeKept`), and of one duration a sale never reads more than the
pattern (`ReadersAgree`); there is no hypothesis on the durations.
The assumptions are the named ones of the modules: ids are positive, and the
values that stand for "nothing" are not among the others.

Model-checked only: `SavesAnswered` and `CloseSucceeds`, liveness.

## 6. What is proved, what is not, and what is next

| property | shown by |
|---|---|
| type invariants, safety invariants, `PostedTogether`, `CredentialsKept`, the refinements of `Account`, `CodeStock` and `SettingStore` | TLC on the instances above, TLAPS for all |
| `SettledIsCredited`, `RequestsAnswered`, `FirstLoginSeen`, `RoutesSettle`, `SavesAnswered`, `CloseSucceeds` | TLC only |
| the violated properties of sections 2 to 4 | TLC's counterexamples |

The six in the second row are liveness under fairness, which this prover does not
reason about. Two other limits shaped the models and are met by them: a
recursive definition cannot be reasoned about by induction, so sums are folds over
sets with the lemmas of section 2; and no module with a theorem uses a RECURSIVE operator. Nothing is
assumed beyond the named assumptions and the hypotheses written in a theorem
(`Editor = {}`).

Next:

1. What would make the violated properties true, as theorems with a hypothesis:
   first logins stay with their tenant where codes of two tenants differ.
2. The user profile of a package on the router, and editing of sales.

## 7. Not modelled

Read-only parts (dashboard, support, lists and statistics, the live readings of
`router/stats.go`), response wording and pagination, token signing, password
hashing and encryption, the route table and the host setup scripts have no state
to get wrong and are left out. The router's operating system and the gateway are
modelled only through what the code does with them.

`generateTransactionID` (disbursement/services.go 77) repeats with the clock; no
interleaving makes that likelier and nothing reads the id, so no property is about
it. `routerOSBytes` (router/hotspot.go 117) trims "G" from "2gb", never parses a
number, and no data limit is ever applied: a slip a unit test shows, listed as a
hazard without a model.
