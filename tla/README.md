# certbro in TLA+

A model of certbro, the client that orders TLS certificates from the regfish
API, deploys them and renews them from an hourly timer. The modules are
translated from the Go source; TLC checks them on small instances, TLAPS proves
the main safety properties for every instance.

## 1. The system

### Components

| component | source | state | operations |
|---|---|---|---|
| order lifecycle | `app/manager.go` | certbro.json of a certificate (`ManagedCertificate`), its order at the provider | `Issue`, `Import`, `Renew`/`renewOne`, `startOrder`, `performReissue`, `waitAndDownload`, `finishDeployment` |
| renewal timing | `config/store.go`, `planRenewal` | validity_days, renew_before_days, reissue_lead_days, last_issued_at | schedule lookup, normalisation, validation, due and cooldown tests |
| state store | `config/store.go`, `app/app.go` | state.json, the certbro.json files, the copy each process holds | `Load`, `Save`, `SaveManagedCertificate`, `DiscoverManagedCertificates`, `storeForRenew`, `persistManaged` |
| renew lock | `lock/filelock_unix.go` | a lock file (flock) | `Acquire`, `Close` |
| deployment | `deploy/files.go` | `pending/`, `live/`, `archive/` | `WritePending`, `LoadPending`, `ClearPending`, `WriteArtifacts` |
| DCV records | `manager.go:904-1171` | the DNS zone, a cache of published records | `ensureValidationRecords`, `provisionValidationRecord` |
| webserver | `deploy/webserver.go`, `postDeploy` | what the webserver has loaded | validate and reload commands, the install hook |
| dual certificates | `app.go:421-562` | two certificates of one name | `issue-pair` |
| command line | `cmd/certbro`, `app/app.go` | - | configure, update, issue, import, renew, list, install |
| progress reporter | `app/progress.go` | the line being shown | output, one animation goroutine |
| API client | `api/client.go` | - | one HTTP request per call, 404 and 409 told apart |
| keys, ids, systemd | `crypto`, `tlsmeta`, `systemd` | - | key and CSR generation, parsing, unit files |

A command is one process. It loads state.json, and `issue` or `renew` drive one
order after the other: write the key to `pending/`, send the request, record
the answer, publish the validation record, poll, download, replace `live/`,
reload the webserver, clear `pending/`, record the result. The record
(`certbro.json`, then `state.json`) and `pending/` are all a later run has to go
on from. Only `renew` takes the lock; the other commands write the same files
without it. The provider, the CA, the customer in the console, the DNS and the
clock move on their own.

### What is hard

Every write and every request can be the last of a run, and an answer can be
lost. A later run resumes from what it finds: the files, the record and the
order must agree on the key. The certificate the API offers changes while
certbro looks at it (a reissue finishes, fails, vanishes from the answer). Two
processes hold old copies of the same files. Times and limits meet: lead times,
cooldown, contract ends, a schedule that shortens certificates. The full list,
line by line, is `hazards` in PROJECT.json, with the properties that answer
each; what no property covers yet says why.

### What makes each component correct

- Order lifecycle: the webserver never gets a key with another key's
  certificate; the key of a pending request is kept until it is deployed; a
  pending request is finished in the end; no second order while one is open; a
  torn `live/` is repaired; a reissued certificate is delivered.
- Timing: no certificate expires; no order exceeds the limit of the day it is
  issued; what is saved can be used.
- State store and lock: runs of `renew` exclude each other and never replace an
  order twice; state.json lists only what has a record; every due certificate is
  reached; what one command stores, another should not undo (it may: known limits).
- DCV records: records of others are never changed; a run that waits has the
  value it waits for in the zone; own records do not pile up; orders that share a
  name are all delivered in the end.
- Pair and webserver: the webserver never loads a key without its certificate;
  both certificates reload once issue-pair is through; what is issued is loaded.
- Progress: lines and frames do not mix; one goroutine animates a wait and ends.

## 2. Modules

| module | content |
|---|---|
| `CertService` | what certbro promises for one certificate, without steps, files or failures |
| `CertOrder` | one certificate, one process at a time, one step per file write and per API call |
| `CertOrderInvariant` | the inductive invariant `IInv` of CertOrder |
| `CertOrderService` | what of CertOrder stands for the state of CertService |
| `CertOrderAnswered` | the invariants of CertOrder for runs that record every answer: `OpenInv`, `ResumeInv`, `AnsweredInv` |
| `CertOrderProofs`, `CertOrderServiceProofs`, `CertOrderAnsweredProofs` | type correctness, `IInv`, `ServedMatches`, `PendingKeyKept`; CertOrder implements CertService; the properties of the run CertOrderAnswered and `PendingResumable` |
| `RenewalTiming`, `RenewalTimingProofs` | when renew acts and for how many days it asks; proofs |
| `SharedState`, `SharedStateProofs` | processes that share state.json, the records and the lock; proofs |
| `DcvProvisioning`, `DcvProvisioningProofs` | the CNAMEs of one name, the runs and orders that compete for it; proofs |
| `IssuePair`, `IssuePairProofs` | the two certificates of a host, their deployments and the webserver they share; proofs |
| `ProgressReporter`, `ProgressReporterProofs` | the calls of a command and the animation goroutines at a terminal; proofs |
| `MC*` | constants for TLC |

The specifications look at the same commands from different sides: CertOrder has
every step of a single order and no second process, SharedState has the
processes and reduces an order to a status and whether it is due, RenewalTiming has the
arithmetic and reduces an order to one step, DcvProvisioning has the calls of the
DNS API and reduces the rest of a run to polling, IssuePair composes two orders
with one webserver and reduces the ordering of each to a request.

### CertOrder

State: `rec` is certbro.json, `listed` the entry in state.json, `pend` the files
of `pending/` (each the key it belongs to), `live` key and certificate in
`live/`, `served` what the webserver loaded. `pc`, `after`, `mode`, `act`, `key`,
`prev`, `mem`, `snap`, `got` are the locals of the running command: the next
step, what follows a save, whether the run is resumed, the pending action, the key it
works with, `previousValidUntil`, the record in memory, the last answer, the
download. `api` and `dcv` are the provider's orders and the zone.

A key stands for the private key, its CSR and the certificate issued for it;
an order has the key of its CSR as id, a reissue a new key in `rcsr`. Statuses are
merged as far as the code tells them apart (`rejected` for the four failed ones,
`active` for the three active ones).

| action | code |
|---|---|
| `Issue`, `RenewSkip/Reissue/Order/NewOrder/Resume` | the branches of `Issue` and `renewOne`; `Plan*` is `planRenewal` |
| `WritePending`, `PostOrder`, `PostReissue` | `startOrder`, `performReissue` up to the answer |
| `SaveRecord`, `SaveList` | `persistManaged` |
| `Provision`, `PollOrder`, `Pause`, `StartDownload`, `GiveUp`, `PollAgain`, `Download`, `DownloadConflict` | `waitAndDownload`, turn by turn |
| `WriteLiveKey`, `WriteLiveCert`, `Reload`, `ClearFile`, `FinishDeployment` | `finishDeployment` |
| `Refused` | a 404 or a reissue refused meanwhile; `GiveUp` also ends a run at a 409 after the deadline |
| `Abort` | a kill or an error at any step in `AbortPoints` |
| `Api*`, `Tick` | provider, CA, customer and clock; not part of certbro |

An `Abort` at "saverec" right after a request is at the same time the lost
answer. Second writes of the pending metadata with the same key and the other files of
`live/` change nothing the properties see and are part of the step before.

### RenewalTiming

`stored` holds the three settings as saved (0: absent), `cert` the end of the
deployed certificate and of its contract, `issuedAt` last_issued_at, `lastCheck`
the timer's last complete run, `ordered` the last order. All numbers of days
are numbers of a unit of which a day has `Day`. `Effective` is what `renewOne` plans
with after `ApplyDefaults` and the normalisation; `RenewSkip`, `RenewReissue`,
`RenewOrder` and `RenewRefused` are the outcomes of a run, by the timer or by hand
with `--force` and `--validity-days`; `Update` is `certbro update`.
Orders are issued at once here.

### SharedState

`state` is state.json, `disk` the certbro.json files, `lock` the holder of the
lock file; per process `cmd`, `pc`, `store` (its copy of state.json), `mem`, `arg`
and `todo`. Reading state.json starts a command (`Start`); `RenewDiscover` and
`UpdateDiscover` read the records; `SaveRecord` and `SaveState` are the two
writes of `persistManaged`. A kill releases the lock, as the kernel does. `Plan` is what
`renewOne` decides on: resume (`Unfinished`), replace or reissue (`Renewable`, then `PostOrder`
or `PostReissue`), or only save. A request that is still open ends the run at the deadline
(`TimeOut`); only the orders of names in `Console`, which wait for the customer or for the checks of an
organization, leave the run to go on with the next name (`Pause`). Whether a due
order is reissued depends on contracts and is a choice here (`Reissues`); a forgotten order is
replaced by a new one (`Purges`), and a failed reissue has the status of a rejected order.

### CertService

`requests` are the keys the provider holds a request for, `outstanding` the key of
the request that is recorded as pending, `serving` the pair the webserver runs with.
`Ask` (a new request) and `Record` are only possible while nothing is outstanding,
`Serve(k)` loads a key with its own certificate, of the outstanding request if there
is one, and `Settle` ends a request that is being served. In CertOrder `Ask` is
`PostOrder` or `PostReissue`, `Record` and `Settle` are `SaveRecord`, `Serve` is `Reload`; all
other steps are hidden. That is the content of the refinement: whichever step a
run dies at and whatever is retried, no step asks for, forgets or loads anything else.

### DcvProvisioning

`records` is the zone as far as it concerns one name (`own`: annotated by certbro).
A process works off its pending requests with one Manager, `at` is the one at hand, `todo`
those it has not come to, and `cache` is `provisionedValidationRecord`. The code visits them in
the order of their directories, or of the names on the command line; here the order is any
(`Visit`), which includes both. `queue` holds the values of the answer that are still to be published, those of
the order before those of its reissue (`NextValue`). A turn of `waitAndDownload` is `GetOrder`, then for each
value of the answer the cache does not hold `Lookup`, `DeleteStale` and `Create`, one
API call each, then what the answer says (`Deliver`, `Pause`, `PollAgain`, `TimeOut`).
A lookup that fails is followed by a blind create, as in the code. Processes in
`Resuming` run `renew` again and again, the others `issue`, once. The walk over the
candidate zones is abstracted to its two outcomes. `exposed` and `issued` belong to
the CA, which accepts an order when its value is the only one of the name.

### IssuePair

A request has a generation, which stands for its key and certificate; `live` has the
generation of key and full chain of both certificates, `loaded` the same for the
webserver. `rec` and `mem` are the records on disk and in the command. `StartPair`,
`StartIssue` and `StartRenew` are the commands; renew walks the directories in the
order of their names, so ECDSA comes first. `Validate` and `Reload` are the two
groups of every plan of `webserverPlan`; a validation fails while a directory the
webserver is configured with is not whole. `PersistSettings` is
`persistIssuePairSettings`. `Abort` ends a command at any step of `AbortPoints`.

### ProgressReporter

The fields of `writerProgressReporter` are variables of their names (`rendered` for
lastRenderLen > 0); `animators` are the goroutines with their tokens, `line` the frame
the cursor stands behind, `logged` the last whole line, `mixed` whether a line was ever
written behind a frame. The mutex makes every call and every tick one step. The
command may call in any order, which includes those of `manager.go`.

## 3. Runs

`CHECK_DEADLOCK FALSE` is set where the model really stops: in CertOrder all
keys may be used up or a certificate that was never recorded ends at a
failure, and in SharedStateAll and SharedStateUpdateTwice, where orders are
rejected, the bounded orders may run out; the requests of IssuePair, the orders of DcvProvisioning are used up in
the end. The other runs are checked for deadlock.

| run | question | bounds |
|---|---|---|
| CertOrderSafety | do key and certificate, record and pending key stay together? | 3 keys, 2 failures, clock 0..4 |
| CertOrderAnswered | with failing reissues, when no answer is lost: the same, record and repair of `live/`, no second open order, and the invariant of the proofs | 3 keys, 2 failures, clock 0..4 |
| CertOrderLive | is every pending request finished, every reissue delivered, every torn `live/` mended? | 2 keys, 2 failures, clock 0..3 |
| RenewalTimingRuns | does a certificate expire, an order exceed the limit, a saved setting become unusable? | half-day units, clock 0..18, two schedule changes |
| SharedStateRenew | mutual exclusion, one replacement per order, every due certificate replaced or reissued | 2 processes, 2 names, 4 orders, 2 failures |
| DcvProvisioningRuns | two orders of one name, one with a former value, renewed by the timer and issued by hand | 2 processes, 2 orders, 3 values, 4 record ids, 1 failure or change by hand |
| IssuePairRuns | issue-pair, then renewals of both, with pauses for the console | 3 requests per certificate, 2 interruptions |
| ProgressReporterRuns | output of a run on a terminal and in a log | 2 texts, 5 waits |
| SharedStateAll | state.json against the records, all commands | 2 processes, 2 names, 2 orders, 1 failure |

Bounds. Three keys give a first certificate, its successor and one more, which
is what a stale key or a third request needs to show; two failures let a
resumed run be interrupted again. In the runs of SharedState reissues and forgotten orders are
apart: SharedStateRenew has the first, SharedStateAll the second. So no passing run meets an order the
provider has open while its record is not pending; `Plan` has the branch, and the proofs, which
bound nothing, go through it. `Life`, `ContractLife`, the lead times and the
cooldown are one to a few units, so that a certificate becomes due, is reissued within
its contract and reaches the contract's end before `MaxTime`. Half a day is the
unit of RenewalTiming because `shouldPreferReissue` and the cooldown compare against
whole days. Two names and two processes are the least that overlap, and one
of the two names comes after the other in every run. DcvProvisioning needs a
process that resumes and one that does not, two orders that want different values and one
order with a value of its past; four ids are enough for one record of each process,
one beside them and one that is being replaced. Three generations in IssuePair are
the first certificate, a renewal that is interrupted and the one after it. Five waits
let four goroutines sleep through the waits that follow.

The conditions of the runs are part of the result:

- CertOrderSafety excludes a failure between certbro.json and state.json and a
  failing reissue (`FailuresCovered`). Without the first, issue would be accepted
  again for a name state.json does not list and overwrite the pending key
  (`app.go:370`); CertOrderFailedReissue shows what the second does.
- CertOrderAnswered and CertOrderLive exclude lost answers (`Answered`), the
  latter also a half-removed `pending/` (`Resumable`): without these conditions the
  properties fail (known limits, below).
- OneOpenOrder cannot hold with lost answers: the API is given no request id.
- SharedStateRenew runs renew only and loses no answer before it is recorded
  (`RenewOnly`); SharedStateUpdateTwice shows update breaking it. No order is
  rejected in it and every name is under the certificates directory; otherwise a due
  certificate may never be replaced (known limits, below).
- `TornLiveIsRepaired` says what the next renew finds when `live/` is torn, for an
  order the provider still knows. Once it has forgotten the order, renew ends with an
  error each time (`manager.go:349`) and `live/` stays as it is. In CertOrderLive,
  where orders are not forgotten, `TornIsMended` says that it is mended in the end.
- RenewalTimingRuns keeps to `TimingCovered`: lead times of a day and two outages,
  validity of three days and two outages. A validity of two days, the least the
  code accepts, is over when the cooldown is, and the certificate expires.

- IssuePairRuns interrupts anywhere but between `ClearPending` and the save
  (`KeyKept`), for the same reason as `Resumable`.
- DcvProvisioning has no run that ends between the last call of the DNS API and its
  answer other than as a failure of that call, and the CA looks at the zone between
  runs. `WaitsPublished` is stated for the process that changed the zone last: a
  value that is in the cache of a run is not published by it again, although another
  process may have replaced it. Such a run waits to its deadline in vain; a later one
  publishes the value and delivers (`OrdersDelivered`). Two organization-validated orders
  of one name replace each other's value in every renew, and the one that comes last is
  what the CA sees until the next run; it is issued first, and then the other.

### Where code and documentation part

| run | what happens |
|---|---|
| CertOrderFailedReissue | an old certificate is taken for the reissued one and deployed with the new key |
| SharedStateUpdateTwice | update puts an old record back; the next renew orders again |
| IssuePairStuck | one certificate's half-written live/ stops the validation for the other; the run ends there each time and the first is never repaired |

Each is in `findings` of PROJECT.json with the line quoted.

Known limits, which the models show without a run of their own:

- A run that dies while it removes `pending/`, before the record is saved (`manager.go:715`),
  leaves a request no later renew can load the key of; it stays pending for ever
  (`PendingResolves` fails with "clear" among the `AbortPoints`).
- When certbro.json is saved and state.json is not (`manager.go:1224`), issue accepts the name
  again and replaces the pending key (`PendingKeyKept` fails with `AbortPoints = {"savelist"}`).
- The rejected order of one certificate ends every run (`manager.go:260`); the timer never
  renews those after it (`DueIsRenewed` fails with `Rejects = TRUE`).
- `storeForRenew` lists what lies under the certificates directory (`app.go:902`): a
  certificate with `--output-dir` elsewhere is never renewed (`DueIsRenewed` fails for a name
  in `Outside`).
- A save during renew writes back what the run loaded at its start: settings that update
  stored meanwhile are lost (`manager.go:258`), and so is an API key that configure stored
  (`manager.go:1225`). SharedState saves the same way, so no property denies it.
- `renew --validity-days` stores the one-off value for later orders (`manager.go:324`), as
  `RenewOrder` of RenewalTiming does, though the documentation speaks of that run.
- A reissue is recorded only after its answer (`manager.go:660`). If the answer is lost and
  the CA finishes before the next renew, the reissued certificate is never delivered
  (`ReissueDelivered` with `AnyStep` for `Answered`).
- With orders that wait for the console, issue-pair reloads the webserver when only the
  ECDSA certificate is in place, though the flag says "after both certificates are in
  place" (`app.go:450`).
- issue-pair that fails between its two orders leaves the RSA record without webserver
  and hook; no later command adds them but import or an edit of certbro.json.
- `persistIssuePairSettings` writes the records issue-pair holds in memory without a lock
  (`app.go:1124`); a renew that finished the RSA order meanwhile is undone as by update.
- `WriteArtifacts` is atomic per file, not as a whole (`files.go:151`;
  `TornLiveIsRepaired` and `LoadedUnlessTorn` say what is left of it).
- The lock's path depends on the flags (`app.go:955`), and `--name a --name a --force` plans
  twice on one record (`manager.go:255`): either way an order can be placed twice.
- A second name for the same common name shares the default output directory
  (`app.go:354`); its issue overwrites record and `pending/` of the first. The models give
  each name a directory of its own.
- import of a certificate that a name already manages replaces the record, pending action
  included (`manager.go:173`); a reissue that was issued meanwhile is not deployed.
- A call that fails during a wait leaves the animation running until the process
  exits; the error message is printed behind its frame (`manager.go:1025`).

## 4. Fairness

- `WF(RenewRun)`, in SharedState `SF(RenewRun(p))`: the systemd timer starts `renew`
  every hour, whatever the last run did and whatever else is run by hand.
- `WF(ProcessStep)`, `WF(Continue(p))`: a process that is not killed goes on.
- `WF(ApiProgress(o))`, `WF(ApiIssue(o))`: provider, CA and customer do their
  part; the documentation promises no more than that certbro goes on after it.
- `SF(Download)`: the bundle of an issued order is there at some time; 409 does
  not repeat for ever.

- In DcvProvisioning `SF(Run(p))` for the timer, `WF(Continue(p))`, `SF(TimeOut(p))`: a
  poll that is not answered with a certificate meets the deadline at some time;
  `SF(CaValidate(o) /\ Quiet)`: the CA looks at the zone between two runs now and then;
  `WF(CustomerClears)`: the customer removes the record certbro refuses to touch.
- In IssuePair `SF(RenewAll)`, `WF(Continue)`, and provider, customer and
  administrator as above.
- In ProgressReporter weak fairness of every goroutine's tick: a ticker fires again and
  again and `sync.Mutex` starves nobody.

No fairness is assumed of `Issue`, `Configure`, `Update`, `Import`, `Tick` or
`Abort`. Failures are bounded, as nothing resolves under endless failures.

## 5. Proofs

| theorem | under |
|---|---|
| `CertOrderProofs!TypeCorrect` | - |
| `CertOrderProofs!InvariantHolds`, `ServedAlwaysMatches`, `PendingKeyAlwaysKept` | `FailuresCovered` |
| `CertOrderServiceProofs!CertOrderImplementsService` | `FailuresCovered` |
| `CertOrderServiceProofs!ServiceImplementedWhenAnswered` | `AnswersRecorded` |
| `CertOrderAnsweredProofs!OneOrderOpen`, `AnsweredInvHolds`, `RecordAlwaysTracksLive`, `TornLiveAlwaysRepaired`, `ServedMatchesWhenAnswered` | `AnswersRecorded` |
| `CertOrderAnsweredProofs!PendingAlwaysResumable` | `PendingWhole` |
| `RenewalTimingProofs!NormalizedTimingIsValid`, `SettingsAlwaysUsable`, `OrdersStayWithinLimit`, `TimingTypeCorrect` | - |
| `RenewalTimingProofs!TimingInvHolds`, `CertificateNeverLapses` | `TimingCovered` |
| `SharedStateProofs!TypeCorrect`, `RenewsAlwaysAlone`, `ListedInvHolds`, `ListedAlwaysHasRecord` | - |
| `SharedStateProofs!OnceInvHolds`, `OrdersRenewedOnce` | `RenewOnly` |
| `DcvProvisioningProofs!ProvisioningTypeCorrect`, `ZoneInvHolds`, `NeverPilesUp`, `ForeignAlwaysKept` | - |
| `DcvProvisioningProofs!ProvisionInvHolds`, `WaitsAlwaysPublished` | `DistinctValues` |
| `IssuePairProofs!PairTypeCorrect`, `PairLoadedWhole`, `PairBothReload` | - |
| `IssuePairProofs!PairKeysKept` | "save" not among the `AbortPoints` |
| `ProgressReporterProofs!ReporterTypeCorrect`, `ProgressInvHolds`, `LinesKeptApart`, `CurrentAlwaysShown`, `OneAnimatorAlways` | - |

`AnswersRecorded` says that no run ends between an answer and its record ("saverec" and
"savelist" are no `AbortPoints`), `PendingWhole` that none ends while the record is saved or
`pending/` is removed ("saverec", "clear"); the known limits above say what happens otherwise.
Unlike `FailuresCovered`, both let the provider fail reissues.

All rest on the named assumptions on constants only (types of the parameters, `Life`
within `ContractLife`, limits that only go down, names with distinct ranks).

**Keys.** `ServedMatches` says nothing of the steps before `Reload`. `IInv` ties
them together: at the provider an order's certificate is that of its own key
until a reissue is done, then of the reissue's key (`ApiOK`); the record,
`pending/` and `live/` agree on the key of what is pending (`RecordOK`); a request is
prepared with a new key while none is pending (`PlacingOK`); a save keeps all this
(`SavingOK`); and a run that waits or deploys has the key the provider issues for, so that
when `Ready` holds the download is its certificate (`HoldingOK`). The proof has one
lemma per group of actions and one step per conjunct they disturb. The
reissue whose answer was lost is the hard case: while it is active `renew`
resumes it without any record of it.

**Refinement.** The steps of CertOrder map to those of CertService by what the record, the
provider and a run know of the pending request (`RequestsKnown`), which `IInv` implies
and `AnsweredInv` too: one proof gives the refinement for lost answers without failed
reissues and for failed reissues without lost answers. It needs two facts more: a key that is
being prepared is in no request (`KeyUnused`), and what a run saves over the record of
an outstanding request is that request, or its end once its certificate is served
(`SavesSettled`). Most actions leave the mapped state alone (`MostStepsHidden`); there is
one lemma for each kind of the others, requests, saves and reloads.

**Answers recorded.** When every answer is recorded a reissue may fail as well, and more holds than
keys that match. The argument is about `Current`, the record the next run will find: the one
being saved while a save is on its way. `OpenInv` is the whole account of open orders: an order the
provider has pending is the recorded one, and there is none while a request is prepared.
`AnsweredInv` adds the certificates. With nothing pending, the order of the record is done and the
record tells the validity of the certificate in `live/` (`SettledOK`); with a request pending, the
order shows the recorded validity for as long as the reissue is not finished (`RequestedOK`), and
its key is in `pending/`, or already in `live/` and only partly in `pending/` (`FilesOK`); a run that polls
has the validity from before in `prev` (`WorksOn`), so an answer with a longer one is the
reissued certificate, not one of an earlier key (`FollowedOK`). The recorded validity is what the case of
CertOrderFailedReissue lacks. `live/` is torn only while the request is pending and its certificate is
issued (`Fulfilled`): unless the provider has forgotten the order, it is finished there and no reissue of
it runs, so `Ready` holds for the next run that resumes it (lemma `TornIsReady`). `ResumeInv` is the part about `pending/` alone and needs none of this:
the files are written one after the other before the request (`WrittenOK`) and all are there from
then on.

**Lapse.** `NeverLapses` needs `OutlivesCooldown` (a certificate lives beyond its
cooldown and an outage, unless its contract ends with it) and `FarWhenChecked`
(when the timer last completed a run, the end was more than `MinLead` away or the
cooldown was on); the clock cannot pass `lastCheck + Outage + 1`.

**Limit.** An order is validated against the step of the schedule certbro follows, a
day or more before the official date; limits only go down.

**One replacement.** Runs hold the lock from before they read the records
(`RenewsAlone`), so what they have yet to come to is what is on disk
(`TargetsCurrent`), each record has an order of its own (`OrdersPlaced`), the
run works on the recorded order (`WorksOnRecord`), and a recorded order has been
replaced only while its successor is about to be recorded (`ReplacedIsSaved`).

**Validation records.** `ZoneInv` counts: the records of certbro and the processes about to create
one are together no more than the processes and the failed lookups, since a process comes to "create"
when it saw the zone empty, removed a record, or failed to look. It also says that only records of certbro
wait in a `stale` set, and ids are not given twice, so a record created by the customer between
lookup and removal is not hit. `CacheInv` follows a run through the values: those of the orders to come are not
in its cache, so that each is published when its order is visited; the order's own value enters the cache
last, behind the one from before its reissue, and from then on the run writes nothing until the next
order. That needs `DistinctValues`: the cache skips a value that an earlier order of the run had in
common, though it may have been replaced since. The values are tokens made from the CSRs,
and each request has its own. No other theorem about the zone assumes it.

**Pair.** Three invariants, each inductive with the types. What a reload loads was whole when
it was validated and nothing is written in between (`LoadingInv`). A request in memory
or on disk has its key, but for the moment between `ClearPending` and the save
(`KeyInv`). issue-pair knows both certificates when it saves the settings, and a command
that starts later works on records that carry them (`SettlingInv`): this is where
`BothReload` would fail if `issue` or `issue-pair` were accepted again.

**Reporter.** `ProgressInv` says which of the goroutines holds the current token, that it
is the only one that may draw, and what stands on the line in each state of a wait; a
goroutine that wakes up late has an old token and stops. A wait moves the token on twice at
most (`TokensCounted`), which bounds the tokens by the number of waits.

Liveness (`PendingResolves`, `ReissueDelivered`, `TornIsMended`, `DueIsRenewed`, `OrdersDelivered`,
`LoadedUnlessTorn`, `AnimatorsEnd`) is outside of what TLAPS proves here and stays with TLC.
Every invariant and every action property of the passing runs is stated by a theorem.

## 6. Not modelled, and the plan

Not modelled yet: the deployment half of import and several names in one directory,
lists of names (`--name a --name a`), more than one lock path. The first needs directories
as state of SharedState; the other two end in the double order of SharedStateUpdateTwice.

Left out for good: formatting and printing, flags, HTTP and JSON, key generation,
organization ids, systemd unit texts, the mock API, the archive directories and the
metadata files. They keep no state a property is about. A group of alternative
webserver commands is one command that works or not, and the install hook, a command
of the customer, is part of the reload.
