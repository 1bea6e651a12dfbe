# A TLA+ verification of moca-agent

moca-agent is the RDK-B component that manages a gateway's MoCA (multimedia
over coax) interface. It keeps the TR-181 object `Device.MoCA.` on the message
bus, tells LM Lite which MoCA devices are in the home network, applies
configuration from the bus, WebConfig and SNMP, logs the network periodically,
and starts a helper daemon, MRD, which routes multicast onto the MoCA bridge.

This directory holds the TLA+ modules that model the agent, the TLC
configurations that check them on small instances, and theorems that TLAPS
proves for all values of the constants. `PROJECT.json` maps each definition to
the source lines it stands for and lists the runs, the hazards they are aimed
at, and the theorems.

Source files are abbreviated as follows.

| short | file |
|-------|------|
| NI    | `src/source/TR-181/middle_layer_src/cosa_moca_network_info.c` |
| INT   | `src/source/TR-181/middle_layer_src/cosa_moca_internal.c` |
| DML   | `src/source/TR-181/middle_layer_src/cosa_moca_dml.c` |
| API   | `src/source/TR-181/board_sbapi/cosa_moca_apis.c` |
| WEB   | `src/source/TR-181/board_sbapi/cosa_moca_webconfig_api.c` |
| PAR, HLP | `src/source/TR-181/board_sbapi/cosa_moca_param.c`, `cosa_moca_helpers.c` |
| MAIN, ACT, MSG | `src/source/MoCASsp/ssp_main.c`, `ssp_action.c`, `ssp_messagebus_interface.c` |
| PLUG  | `src/source/TR-181/middle_layer_src/plugin_main.c` |
| MRD   | `src/source/MRD/mrd.c` |

## 1. Inventory

The agent is one process with many threads and almost no locks; MRD is a second
process. They meet the MoCA driver behind a HAL, the `syscfg` store, the message
bus (with PAM, LM Lite and the WebConfig client behind it), and the kernel.

### Device synchronisation (NI)

* **State.** The linked list `mocaList` (MAC, status, `Updated`, `StatusChange`,
  and strings that name the device), its mutex, and this gateway's own MAC.
* **Operations.** `SynchronizeMoCADevices` polls the HAL's association table every 20 s
  (`MOCA_POLLINGINTERVAL`), finds or adds a node per entry, marks nodes offline that the
  round did not update, and reports what changed to LM Lite. Setting
  `X_RDKCENTRAL-COM_MoCAHost_Sync` reports the whole list from the bus thread.
* **Hard.** Two threads walk and change the list; the pointer that
  `FindDeviceInMoCAList` returns is used after the mutex was released; flags and
  strings are written without it; the bus calls in the middle of `Send_Update_to_LMLite`
  block with the mutex held; PAM may never tell the MAC; the count and the table
  come from two HAL calls; reports may be lost.
* **Correct when** the list never has two nodes of one device, no thread uses a
  freed node, LM Lite's view follows the association table, departures are not
  forgotten, and HostSync is served whatever the other thread waits for.

### Multicast route daemon (MRD)

* **State.** Two tables of fixed size with a life time per entry, one for the
  LAN bridge and one for the MoCA bridge; the pointer to a shared-memory white
  list; the kernel's routes.
* **Operations.** Each round reads the sources from two scripts, enters and
  ages them, sets and deletes routes, pings sources without a neighbour entry,
  and from time to time detaches and attaches the white list.
* **Hard.** Tables fill up; entries move while the table is walked; the shared
  memory is created, replaced and removed by another process; attaching fails;
  the daemon is killed and started again while its routes stay.
* **Correct when** entries are unique, a listed source is routed and a route
  belongs to an entry, routes follow what the lines
  say and last a life time, stale entries go, one mapping is held, lookups read
  mapped memory, and routes converge to what talks and is white-listed.

### Interface configuration (DML, API, INT) and WebConfig documents (WEB)

* **State.** The cached `Cfg`, the force flag, the driver's configuration,
  `syscfg`, and who is in the middle of what.
* **Operations.** Bus transactions (set values one by one, validate, commit or
  roll back), reads that reconcile driver and `syscfg`, resets on threads of
  their own, documents with backup and rollback, notifications of changes made
  over SNMP, start and restart.
* **Hard.** Four kinds of thread share one cache without a lock; each write to
  the driver or `syscfg` can fail alone; the agent can die between two writes;
  bridge mode and high split force MoCA off; reconciliation may run at any time
  and takes one of two sides.
* **Correct when** transactions and documents are applied as a whole or not at
  all, cache, driver and `syscfg` agree when nobody is at work, only validated
  values reach the driver, a forced interface stays on, and SNMP changes and
  resets end where they should.

A document comes as msgpack (API, PAR, HLP): `CosaDmlmocaUnpack` searches the
outer map for `moca` and its header by `__finder_comp`, and `process_mocaparams`
the inner one for a boolean `Enable`. Names are compared up to the length of the
key in one place and of the name in another, so a key may be taken for another
one. **Correct when** a document asks for what it says, wherever that stands.

### Process start and bus registration (MAIN, ACT, MSG, PLUG, INT)

* **State.** The component's common object with its health and trace level, the
  data model's controller, `g_MoCAObject`, the registrar's entry, the four
  threads that `CosaMoCAInitialize` makes, two files that outlive the process.
* **Operations.** `main` daemonizes, connects to the bus, creates, engages and
  registers the component and leaves the files behind; the bus thread reads and
  sets the common object and may cancel the component; the console engages and
  cancels it anew; signals end the process; a next process is started.
* **Hard.** The bus calls back long before `main` is through; the threads are
  made before the object they work on is stored; most results are not looked at;
  memory is freed by whoever cancels; a crash is told from a boot by two files
  that are made at two places.
* **Correct when** no pointer is used before it is set or after it is freed,
  who is told "Green" can use the component, a crash is told exactly when there
  was one, the trace level follows the last set, and the start gets ready.

### Dynamic tables (DML, API)

* **State.** For each of the four tables AssociatedDevice, PeerTable, MeshTable
  and FlowStats an array, a count and the tick of the last fetch; the sticky flag
  that hardware was found.
* **Operations.** `IsUpdated`, `Synchronize`, `GetEntryCount`, `GetEntry`.
* **Hard.** Old rows are freed before new ones are fetched, any HAL call may
  fail, the network changes between the calls of one fetch, the tick is kept
  before it is known whether the fetch succeeds.
* **Correct when** every row that is announced exists, and rows show the network
  as it was within the refresh interval.

### Logging and telemetry (DML, API, INT)

* **State.** Enable flag and period in `syscfg`, in `LogStatus`, in a file, and
  in the telemetry thread's variables.
* **Operations.** A set stores the value and rewrites the file; a thread watches
  the file by inotify and signals a condition variable; the telemetry thread
  waits on it with a deadline; another thread naps and logs.
* **Hard.** The file is empty between truncation and write; signals and events
  come between a check and a wait; the period changes while a thread sleeps.
* **Correct when** the copies agree once nothing is under way, waits end by the
  interval in force, and the logger logs on time.

### Left out

| part | why |
|------|-----|
| Statistics and their accessors (DML, API) | one HAL call copied into the answer of a read; no state of their own |
| Extended counter tables (DML, API) | static tables whose rows are made once, at registration; every read asks the HAL for the row's position again and copies what comes. Nothing but the answer depends on a row; section 7 says what it answers for a node that left |
| Scripts under `src/scripts` | their output is MRD's input, their `killall` is MRD's `Restart` |
| Hash chains inside the white list | the white list is a set of addresses |
| Tests, `#if 0` code (DML 2863-3489), the build without hardware (API 2283-2682) | not part of the program that runs |

## 2. Modules

| module | models | checked by |
|--------|--------|------------|
| `MoCADeviceSync` | NI: both threads, PAM, LM Lite, HAL | `sync_*` |
| `AssocReport` | what NI promises to LM Lite, abstractly | refined in `sync_rounds` |
| `MRD` | MRD, both tables, white list, kernel | `mrd_*` |
| `MulticastRoutes` | what MRD promises for the routes of one bridge, abstractly | refined in `mrd_safety`, for each bridge |
| `MoCADoc` | the decoding of documents, as operators; part of `MoCAConfig` | `cfg_*` |
| `MoCAConfig` | configuration, transactions, documents, resets, SNMP, start | `cfg_*` |
| `MoCATables` | the four dynamic tables | `tables` |
| `MoCALogging` | settings of the log, three threads | `logging` |
| `MoCAStart` | the process, its threads and the bus, over several lives | `start` |
| `MC*` | scenarios and symmetry for TLC | |
| `*Proofs` | the theorems about the module in the name | |

The components share no state the models tell apart, so they are separate
specifications; `MoCAConfig` composes what does share state, the transaction
machinery, the board API, the resets and WebConfig, and takes its documents
through `MoCADoc`. `MoCAStart` ends where the other modules begin: a worker of
its set `workers` is a thread whose work `MoCADeviceSync`, `MoCALogging` and the
sysevent actions of `MoCAConfig` model.

**How to read them.** Definitions have the source's names (`CleanupMoCAList`,
`mrd_shmattach`, `rollback_moca_conf`). An action is what a thread does between
two points where another one can interfere. In `MoCADeviceSync` these are the
mutex operations and the blocking bus calls; in `MoCAConfig` and `MoCATables`
each call of the HAL, of `syscfg` or of the bus; in `MRD` the system calls and
script lines; in `MoCALogging` the file operations, waits and sleeps; in
`MoCAStart` the calls that another thread can see the effect of.
`pc` holds where each thread is. Definitions marked `mutant` are plausible
mistakes that show each property can fail; no specification uses them.

**Abstractions worth knowing.**

* `MoCADeviceSync`: the list is a sequence, a pointer is a position; freeing the
  list empties it, so a stale pointer shows as a position outside it. Each of the
  writes that `Set_MoCADevices_Status_Online` makes to a found node without the
  mutex is an action. Of a node's two strings that are replaced there the model
  keeps whether they are given back at the moment (`freed`), of the report that
  is being formatted its Status (`line`); row numbers are not kept. `used` counts
  the environment's actions, and `grew` remembers that a device joined since the
  poll began.
* `MRD`: a table is the used prefix of its array. `age` is history: ageing
  passes since the address was last read from the script.
* `MoCAConfig`: `Enable` and `KeyPassphrase` stand for the parameters; the
  first is guarded, reconciled and rolled back, the second for all that are only
  copied; `X_CISCO_COM_Reset` is kept because it changes what is applied. Numbers
  and provisioning parameters have no value, but mark their object as written
  (`SetNumber`, `SetProvisioning`), and a number may be refused. `txn`
  and `wish` are history: the state before a transaction and what it asked for,
  and what SNMP set last.
* `MoCATables`: rows are the nodes they describe, `Blank` a row nothing was
  written to, `Wild` what is read from an array that is gone. `past` is history:
  what the network was within the refresh interval. A read that fetches nothing
  changes nothing and is no action. Of requests that come in the same second the
  model keeps the order.
* `MoCADoc`: a name is a key, and `Begins` says which names begin others; of a
  value the type is kept and what a boolean says. Documents are assumed to hold
  each key once, the wrapper and its header, and no key that is a beginning of
  `Enable`; section 7 says what happens to others.
* `MoCAStart`: an object is its number, `holds` of a worker is the object it
  found. The data model's library is external: it refuses requests until
  `Engage` and the registration are done and after `Cancel`, and a cancel
  that falls inside `Engage` is seen at the steps before and after it. `Level`
  holds the levels that the `INT` of `g_iTraceLevel` can hold.
* `MoCALogging`: no clock; a wait may time out at any time, a nap takes `Nap`
  seconds off the period. `lost`, `missed`, `skewed` remember that a race listed
  in section 7 happened.

## 3. Runs

Bounds are numbers of environment actions. Where a `Budget` is a set of
functions, each member is a scenario: TLC explores them all in one run, but the
faults of two scenarios do not multiply.

| run | states | what it asks |
|-----|-------:|--------------|
| `sync_all` | 390 896 | the list under both threads with each fault once |
| `sync_rounds` | 83 820 | three devices: LM Lite agrees after each round, and the rounds implement `AssocReport` |
| `sync_spurious_offline` | violation | HostSync inside a round reports a present device offline |
| `mrd_safety` | 854 150 | tables, routes, mapping and lookups with everything that fails; both bridges implement `MulticastRoutes` |
| `mrd_live` | 658 856 | routes converge, neighbours are pinged |
| `cfg_bus` | 908 820 | transactions with refusals, failures and kills, forced mode |
| `cfg_all` | 621 836 | start, restart, documents, held values, failing calls |
| `cfg_live` | 10 080 | SNMP values are kept, overlapping resets return |
| `cfg_force_undone` | violation | rollback forgets the force flag |
| `tables` | 2.77 M | rows, counts and freshness |
| `logging` | 743 539 | agreement of the settings, waits, naps |
| `start` | 250 232 | the process: faults, health, crashes, trace level, readiness |

**Why the bounds are enough to meet the interesting cases.**

* `sync_all`: two devices are needed for a list in which one node is behind the
  cursor and one is before it; two changes let a device join and leave, or two
  overlap. One HostSync by itself and one by a restarted LM Lite, one lost
  report, one HAL failure and one restart can all fall into one behaviour.
  `sync_rounds` has three devices and four changes, so that a device can leave
  and return at another place of the table while others move.
* `mrd_*`: a table of two entries is the smallest in which an entry is moved into
  a freed slot; three addresses overflow it; a life time and a refresh counter of
  two let an entry survive a pass and a refresh come between rounds. Pings
  in the third round are within reach. One address of `mrd_safety` does not begin
  with 169.; one of `mrd_live` is the one that the ping command leaves out.
  Scenarios: `Tables` (both sides and the white list), `LanTables`, `Overflow`,
  `Neighbours` (lost twice), `Faults` (each fault once, where the segment is
  created, with any addresses in it, and not edited) and `FaultsReplaced` (where it is replaced); for liveness `Segments`
  and `Neighbours`.
* `cfg_*`: two valid keys (symmetric) and the empty one; two transactions, so one meets
  what the former left. Scenarios isolate a theme each: `Transactions` (a value that is
  refused, a driver that fails, a bus that misreports the LAN mode), `Killed` (an agent
  that dies at any point of them), `Forced`, `Forcing`, `Starts` (modes change and the
  agent dies at any step), `Documents` (two, with a `syscfg` that refuses one or two
  writes), `HeldDefault` and `HeldOthers` (a key held in an open transaction while
  others use the cache), `Unstored` (a commit whose `syscfg` writes fail, and a read
  after it), `FailingReset`, `FailingWeb`, `Snmps`, `Resets`. In `Forcing` and
  `FailingWeb` a read of `syscfg` may fail too. `Blobs` holds documents that switch on
  and off, with `Enable` first or behind another boolean, without it, of another type,
  and one that does not unpack.
* `tables`: two nodes, clock up to 3 with a refresh interval of 1: a table is
  fetched, kept, and fetched again. `Moving` has nothing fail; `Failing`
  and `Faults` have each call fail once, and the network change inside a fetch.
* `start`: `Lives` has three processes after each other with signals and a boot
  between them; `Cancelled`, `Consoled` and `Again` cancel and engage from the
  bus and the console at every point; `Failing` has each call of the start fail
  once, `FailingAgain` those of a second engagement.
* `logging`: periods 1 and 3 with naps of 2 put a change before, within and past
  the period; two sets overlap the event thread's work on the first.

Deadlock is checked in `sync_all`, `sync_rounds`, `logging` and `mrd_live`.
Elsewhere it is off, since the bounded system may come to rest: MRD exits when a
script cannot be started (MRD 572, 617), an agent with nothing to do waits for
requests, the clock of `tables` stops at its bound, and the last process of
`start` may end for good.

## 4. What the properties say

| property | in words |
|----------|----------|
| `UniqueMac`, `NodesLiveWhileUsed` | one node per device; no thread uses a node that is gone, nor a string of one that is, unless HostSync reports the node that the other thread is bringing back |
| `OfflineTold` | a device LM Lite holds online has a node that is online or still to be reported, whichever reports were lost; it has none only after a restart, or after a report that was not acknowledged and the freeing of the list |
| `RoundTruth`, `RoundAgreement` | without HostSync a departure is reported only for a device missing from the round's table; without lost reports LM Lite agrees with that table after each round |
| `ReportsTopologyChanges` | the rounds implement `AssocReport`: what LM Lite is told anew is a change from one snapshot to the next, and all of it is told before the next poll. A snapshot is the network, but empty when the poll failed, and without some devices when one joined during the poll |
| `HostSyncServed` | HostSync is answered although PAM is silent |
| `ListedRouted`, `RoutesListed` | routed entries have a route; routes have an entry, up to the first overflow and restart |
| `KeptForLife` | a route goes only after `MAX_MLIFE` passes without a line of its source, after a line that finds it outside the white list, or when the white list is attached for the first time |
| `RoutesFollowLines` | each bridge implements `MulticastRoutes`: what is routed follows the lines, the ageing and the white list read at the lines, and nothing else |
| `StaleBound` | an entry outlives its source by fewer than `MAX_MLIFE + MAX_MCAST_ENTRIES` passes |
| `SegmentMapped` | the segment is mapped once at most, and lookups read mapped memory |
| `RoutesConverge`, `PingsResolve` | routes end as talking ∩ reachable ∩ white-listed; lost neighbours come back |
| `AllOrNothing`, `DocAllOrNothing` | a transaction or document is applied wholly or not at all; while a transaction is under way, where the agent may die, the driver has all of it or nothing, and `syscfg` nothing that the driver has not; where only writes to `syscfg` were refused, driver and cache hold what a transaction asked for or what `syscfg` holds, and a document is undone if one was refused |
| `Agree` | cache, driver and `syscfg` agree when idle, restarts included |
| `OnlyValidated` | no key that was not validated reaches the driver |
| `ForceStored`, `ForceHonoured` | the flag is stored before it counts; a forced interface stays on |
| `SnmpKept`, `ResetReturns` | what SNMP set last is kept; overlapping resets end enabled |
| `RowsAnnounced`, `FreshRows` | announced rows exist; what the bus is answered is not older than the interval, or, with no associated device left, of no array |
| `SettingsAgree`, `SettingsAdopted` | copies of the settings agree and changes arrive |
| `WaitsNewInterval`, `LoggerKeepsTime` | deadlines come from the interval in force; naps sum up to the period |
| `FaultsExplained` | a NULL pointer is used in three cases only, each of them named |
| `GreenIsServed` | a component in good health is registered, engaged and has its object |
| `CrashNoticed` | WebConfig is told of a crash exactly if a started process ended since the boot |
| `LevelFollows` | what is traced is what the bus was told last |
| `BecomesReady` | an undisturbed start ends with all threads at work, or the process ends |

Several properties hold under conditions on what happens beside
(`OnlyUsed`, `Without`). Each is there because the code breaks the property
otherwise; section 7 says where.

## 5. Fairness

* **Synchronisation.** `ThreadSpec`: each thread runs (WF), and a thread that
  waits for the mutex gets it (SF). The strong fairness is justified by the sync
  thread's `sleep`, all of which it spends with the mutex free. PAM's answer
  is fair only in `FairSpec`, which `sync_rounds` uses; `HostSyncServed` is
  checked under `ThreadSpec`, where PAM may be silent for ever.
* **MRD.** WF of the main loop. Nothing of the environment is fair.
* **Configuration.** WF of the threads' work and of `Finish`: the bus ends each
  transaction it opened by a commit. WF of all work as one action suffices,
  since the work of every request is finite.
* **Logging.** WF of the bus's file write, of the event thread and of the
  logger, each a thread that is blocked only where the model says so. The
  telemetry threads need no fairness.
* **Start.** WF of `main`'s start and of the handlers' first steps: threads that
  nothing blocks. Signals, cancels and failures are not fair.
* Safety properties are checked of the plain `Spec` or of a fair one alike, since
  fairness rules out no finite behaviour. `MoCATables` has no liveness: the bus
  asks when it likes.

## 6. Proofs

The theorems hold for every set of devices, addresses, keys, nodes and periods,
every table size, life time and interval, and every budget of faults. They
assume what the modules' `ASSUME`s say and nothing else: that `Zero` is no
device, that bounds are natural numbers, that sizes and life times are not
zero, and the like. All but a few are safety theorems `Spec => []P`: the decoding
of documents has no state, `ReportsAreTrue` is about steps, `RoundsImplementReports`
about two specifications, and it and `RoundsAgree` assume `Lossless`.

**`MoCADeviceSyncProofs`.** `TypeCorrect`, `NodesAreUnique` and `NodesAreLive`
follow from `SafeInv`, the conjunction of the type, `ScanInv`
(the loop index is in the array while an entry is worked on), `LookupInv` (in
`write` with no node found, no node of that MAC exists: only the sync thread
appends, so what Find saw under the mutex stays true without it), `WriteInv` (past
the first unlocked write the node is online), `StringsInv` (only the found node
has a string that is given back, and only between `free` and `strdup`) and the
properties themselves. `UniqueMac` alone is not inductive: `AddDevice` could
append a MAC that is there. `UpdateEffect` and `SendEffect` sum up what the
unlocked writes and Send do to the list, so that the other proofs need not go
through them one by one.

`DeparturesAreTold` needs `AckInv`, `ToldInv` and `CalmInv` besides. `AckInv`: from
the formatting of an offline node's line to the last of its flags, the line says
offline and, once it was acknowledged, LM Lite has it offline, because the only
write to a node's Status without the mutex sets it online. `ToldInv` is the
property for devices that have a node. `CalmInv` is why they have one, as long as
every report is acknowledged and the agent runs: Send leaves each node reported
behind it, so a round without a table, which finds every node reported, takes
all of them offline and reports them before the list is freed.

The rounds rest on `RoundInv`: as long as no HostSync was asked for, the entries
of the table the walk has passed have a node that is online and `Updated`, so the
offline pass keeps it, and while Send reports, every device of the table is
online; and on `LineInv`: the line that is being formatted has the node's status.
`ReportsAreTrue` follows for steps that report a departure. Agreement is
proved under `Lossless`, the bounds of `sync_rounds`: no report is lost, nobody
asks for HostSync, no restart; joins, leaves and failed polls are free.
`AgreeInv` adds what LM Lite knows: a node without `StatusChange` has the
status it was told, unless it is just being brought back, and at each point
of the round which nodes may be `Updated` and for which device. It needs that the
HAL lists no device twice (`OncePerTable`): a second entry would take back the
change the first one recorded, unreported. From it follow `RoundsAgree` and
`RoundsImplementReports`, the safety half of `ReportsTopologyChanges`: asking for the
number of devices is a `BeginPoll`, reading the table a `Poll`, which is the network
as it is unless a device joined meanwhile (`GrewInv`: the number asked for before
covers a table that only shrank), a failure of either a `FailedPoll`, a call that
changes LM Lite's view a `Joined` or `Left`, and every other step of a thread, the
one that ends the sleep included, changes nothing that `AssocReport` sees.

**`MRDProofs`.** `BaseInv` is the type, the range of the ageing index, and `MapInv`,
which relates the pointer, `shmid` and the number of mappings; `SegmentIsMapped` needs
`LookupInv` besides: an address that was given back is kept only where attaching comes
next, as long as no segment was removed. `EntriesAreUnique` rests on lemmas that
entering an address into, and dropping a slot from, a table without duplicates gives
such a table. `StaleEntriesBounded` needs `LifeInv`: life time plus age is bounded by
`MAX_MLIFE` plus the distance an entry has travelled to the front, counted differently
for slots before and behind the ageing index; this measure is what makes passing over a
moved entry harmless in the long run, though it violates the comment at MRD 246.
`RoutesKeptForLife` needs the opposite bound (`LastsInv`): life time plus age is at
least `MAX_MLIFE`, and one more in the slots that the pass has not reached, so an entry
is dropped only when its age is a life time; that the entry is the only one of its
address is needed again. `ListedAreRouted` is one half of `RoutedInv`, an equivalence:
of the link-local addresses in a table exactly those whose status is set have a route,
and no other address has one. Its other half makes the touching of a route on a change
of status only unobservable, which is what `RoutesAreFollowed` rests on: the set of
addresses in a table, the routes and the white list's answer at a line take the steps of
`MulticastRoutes`, on both bridges, with a table that overflows and after a restart. The
abstract module counts addresses where the code counts slots; `SameCount` says that they
are as many, by uniqueness, so a table that held an address twice would be full too
early and show in `mrd_safety`. `RoutesAreListed` is the converse and needs room in the
table. `MetInv` counts: the addresses that talk on a side, those whose lines are not
read yet and those in its table are together no more than the sources that ever came to
it. So as long as no more came than the table holds, a line of an address that is not in
it finds a free slot, and no route is set without an entry.

**`MoCAConfigProofs`.** `TypeCorrect`, and `ForceIsStored`, inductive with the
type. `KeysAreValidated` needs `KeyInv`: the key a thread holds for the driver
came from the driver or from a cache that was validated, and a thread that
copies the cache unvalidated cannot do so before the bus thread has looked at
the driver, since until then (`Early`) the cache is empty and switched off and
nobody else is at work.

**`MoCAConfigAgreeProofs`.** `AllAgree` follows from `AgreeInv`, which says what the bus
thread still owes at each of its points: up to `moca_SetIfConfig` nothing is known but
that the cache is what will be written, then cache and driver agree and `syscfg` is
owed, and a read holds what `syscfg` has. `ForceIsHonoured` follows from `ForcedInv`:
while the flag is stored and the device routes, `moca_enabled` is on, cache and driver
are on from the first look at the driver on, no document is taken before the flag is in
memory, and one that is rolled back has backed up an interface that is on.
`TransactionsAreWhole` follows from `WholeInv`. `Order` says which routine may have
called which and what the answer is then. `Atomic` says what driver and `syscfg` hold at
each point of a transaction: what they held before it up to `moca_SetIfConfig`, what is
wanted (`Target`) from there on, and that a failure is answered only after the unchanged
driver was read into the cache; so it says too what a kill at that point leaves. A
restart establishes the invariant like a start. `Unstored` says the same where `syscfg`
may refuse writes: then what it holds is one of the two, and a read that finds the
driver at odds with it brings the driver in line, provided `syscfg` answers it. The
theorems hold for any number of the operations their conditions name, for which TLC has
small budgets. `DocumentsAreWhole` follows from `DocInv`: `DocAt` says at each point of
a document which of cache, driver and `syscfg` still have what was there before it. That
a failing `syscfg` does not break the rollback too is a matter of counting: the rollback
writes only where the driver was changed, and it was changed before a rollback only if
`syscfg` failed, or in bridge mode. There the start has switched MoCA off
(`OffInBridge`), so that a document finds nothing to switch off, unless again `syscfg`
failed, in the start. A second failure does leave a document half undone, which is why
the property excepts it. That the document asks for one value, the one that was set, is
`DecodingIsRight`.

**`MoCADocProofs`.** `DecodingIsRight`: for every document that keeps to
`DocAssumption`, whatever else it holds and in whatever order, `CosaDmlmocaUnpack`
asks for `enable` exactly if the document says so. No state is involved: it is a
theorem about operators, on which the documents of `MoCAConfig` rest.

**`MoCAStartProofs`.** `TypeCorrect`, `CrashesAreNoticed`, `GreenIsBacked`,
`FaultsAreExplained` and `LevelIsFollowed` follow from one invariant,
`IInv == TypeOK /\ CrashInv /\ GreenInv /\ FaultInv /\ LevelFollows`. `CrashInv`
says at each point of the start what the two files say of the processes before;
`GreenInv` and `FaultInv` say what `main` has made, and what may have been freed
beside it, at each of its points. `LevelFollows` is inductive with the types.

**`MoCATablesProofs`.** `AnnouncedRowsAreThere` combines `RowsAreCounted` and
`AssociatedRowsAreThere`. The former needs that before hardware was found
no table announces a row (`NothingFetched`): with the mesh table a fetch without
hardware returns before it resets the count, which leaves the count right
only because there never were rows then, and the flag is never reset.
`TypeCorrect`, `AssociatedRowsAreThere` and `RowsAreFresh` follow from
`TablesInv == TypeInv /\ AssocInv /\ FreshInv`. `AssocInv` says of the
associated devices that count and array agree, unless an excepted call failed
or the network was empty at a moment not before the table's tick (`EmptySeen`),
which is remembered as long as the table is served. `FreshInv` says that a
table young enough to be served shows the network of the very moment its tick
was kept, and that while the associated devices are being fetched the network
is still the one of that moment: without it a fetch in two calls could keep a
tick of one network and rows of another.

**`MoCALoggingProofs`.** `LoggerIsOnTime` needs `AtHead` (between naps, time
slept and time left make up the period in force) and `Asleep` (the same with
the period kept before the nap). `TypeCorrect`, `SettingsAreAgreed` and
`WaitsAreCurrent` follow from `LoggingInv == CopyType /\ CopyInv /\ WaitInv`.
`CopyInv` says which copy lags behind which, and what is pending while it does:
file behind syscfg while the bus writes, the threads' settings behind the file
while an event is to be taken or was missed. `WaitInv` says that a deadline
is that of the settings in force but between the event thread's read and its
signal. That a file that is absent or truncated is no settings is
an assumption of the module.

**Only model-checked.** Liveness under fairness, with the fairness of
`AssocReport` and `BecomesReady` of the start, which is beyond the prover. Every
safety property that a passing run checks is proved.

## 7. Where the code departs from what it promises

Two departures have a run that shows them.

* **NI 699, `sync_spurious_offline`.** HostSync between the update of a node and
  the offline pass of that round resets `Updated`; the pass then takes the node
  for gone and reports it offline. `docs/README.md:730` promises to report
  actual topology changes only.
* **DML 832, `cfg_force_undone`.** `MoCA_Rollback` takes the program's defaults
  for all of `MoCACfg`. A transaction that sets only where provisioning is found
  and a number that is refused clears the force flag in memory, while `syscfg`
  keeps it. A later transaction may then switch the forced interface off.

The others are what the conditions of the properties except.

*Synchronisation.* A node that comes back gets its strings anew, without the
mutex: they are freed while the bus thread, which holds it to answer HostSync, may
be formatting the report of that very node from them (NI 564-573 against 656-677),
though `docs/README.md:730` promises mutex protection. `NodesLiveWhileUsed` excepts
this case and shows that it is the only one. A poll that fails is taken for a
network without devices: each device is reported offline, and online again by the
next poll, while nothing changed (NI 323, 841), which is not the "actual topology
changes" of `docs/README.md:730`; `AssocReport` names the case (`FailedPoll`). An
arrival whose report is lost is never told, because the
next round resets `StatusChange` (NI 555). A departure whose report is not
acknowledged is forgotten if the list is freed in the same round, because the last
device left or the poll failed (NI 843): LM Lite goes on holding the device
online, and no later round knows of it, unless it comes back. After a restart
devices that left meanwhile stay online at LM Lite, since nothing remembers them
(NI 77); `OfflineTold` excepts these two. A poll during which a device joins asks
for the number before the table and may miss a device, which is then reported
offline for a round. A node that stays online keeps the row number it came with,
though rows of the HAL's table move (NI 555, 652).

*MRD.* When the segment is removed, a refresh detaches it, attaching fails before
`shmat`, and lookups go through the old pointer (MRD 734). A killed daemon leaves routes
(MRD 398). The entry that is moved into a freed slot is passed over in that pass (MRD
272), though the comment at 246 says that the pass goes through the table; `StaleBound`
says how much longer it can live. A source that finds the table full gets a route that
nothing deletes (MRD 678). A segment with identifier 0 is never detached. A source of
the MoCA bridge whose line does not hold 169 is not polled, and one on either bridge is
not pinged; nor are 169.254.30.1 and the addresses that begin like it (MRD 513). The
scripts find a source's neighbour entries with `grep $val`, which an address that begins
with it matches too (`moca_mroute_ip.sh:5`); the model has no addresses that begin like
another.

*Configuration.* ForceEnable is applied before the transaction is validated (API 2140).
A reset to defaults ignores bridge mode (API 742) and, when driver or store fails, stays
asked for (API 826). Without hardware a transaction that fails leaves in the cache what
was refused, since the rollback reads the driver and gives up as well (DML 2445, API
1042). A failing `syscfg` is logged and the commit succeeds; the next read sets the
driver back (API 826). When `syscfg` does not answer a read, the value of an earlier
read is taken for what it holds and the driver is set to that (API 1053, 1086-1092), so
a commit that was stored is taken back, though the trace at 1088 says that the driver
gets what `syscfg` has; `AllOrNothing` and `DocAllOrNothing` speak of refused writes
only. A flag that cannot be read at the start counts as not forced, `bridge_mode` and
the VIDEOSERVICE flag are assumed to be readable. A read of Enable between an SNMP set
and its notification sets the driver back (DML 1081), and the reload after a
notification wipes values pending in an open transaction, whose commit reports success
(INT 212). If the agent dies, or Enable is read, in the five seconds of a reset, MoCA
stays off (API 623, 643). If it dies in a commit after the driver was written and before
`syscfg` was, the start takes `Enable` back to what `syscfg` holds and leaves everything
else, the passphrase included, as the commit set it (API 826, 1086-1092), which is half
a transaction. If the cache cannot be loaded at start it stays zero (INT 708).

*WebConfig.* In bridge mode a document switches MoCA off, then reports a failure
and rolls back (WEB 304). A failing driver leaves the cache changed (WEB 221).
If `syscfg` fails a second time, in the rollback, it is left with a value that
cache and driver no longer have (WEB 316). If the backup cannot be read the
rollback uses the one before (WEB 254). The whole cache goes to the driver,
pending values of a transaction included (WEB 206).

A document without a boolean `Enable` is answered with success, though nothing
is applied (API 2262). One without its `moca`, which `optional` lets pass, or
without its header is followed through a NULL pointer (HLP 104, API 2237, PAR
152). A key that is a beginning of `Enable`, "En" for example, is taken for it
(PAR 124).

*Start.* The telemetry push reads `g_MoCAObject`, which COSA_Init stores only after the
threads were made (INT 451, PLUG 210). A cancel from the bus while `main` is engaging
frees what it uses next (ACT 245). A second `e` on the console makes a second object
with threads of its own, while the new sysevent handler takes the object that is in
`g_MoCAObject` (INT 155). A common object that is made anew while nothing is traced says
that logging is enabled (ACT 71-90). sysevent is told that `moca_init` completed
although the registration failed (ACT 207, MAIN 360; `docs/README.md:291` says that
readiness is ensured before it is advertised), and it goes on saying so over restarts. A
process that is killed between its start and the second file is not recognised as
crashed (MAIN 353-361), and after SIGSEGV the process exits with 0 (MAIN 190-219).

*Reads.* A row of the extended counters answers for a position, not a node:
rows are made once, a node that leaves shifts those behind it, and a row whose
position is gone answers the last values it read, since the result of the fetch
is not looked at (DML 4731, API 1504).

*Tables.* The count of associated devices outlives its array (DML 6362): if
`moca_GetMocaCPEs` fails, memory runs out, or, with nothing failing, the last node
has left, the bus is announced the old number of rows and `GetEntry` hands out
entries of a NULL array (API 1877), until a fetch finds nodes. `RowsAnnounced` and
`FreshRows` except it. Nodes that leave between count
and table leave blank rows (API 1879). The tick is kept before the fetch, so a
table that could not be fetched stays empty for the interval.

*Logging.* A signal between the deadline's computation and the wait is lost (INT
531, 551-553), a change between the first read and the watch is missed (INT
512-515), a period set between lines 322 and 325 is counted wrongly. The period
0 is admitted (`Logging_Validate` refuses nothing): the logger then does not
sleep and the telemetry thread's wait ends at once. Values are applied as they
are set and `Logging_Rollback` does nothing (DML 7153).

## 8. Plan

Done, in this order: synchronisation, MRD, configuration with WebConfig, tables,
logging, the start of the process, the decoding of documents; and the theorems
of section 6. What is left:

1. **Proofs.** What the prover reaches of the properties is proved; each new
   property of a model comes with its theorem.
2. **Models.** The extended counters and statistics if they gain state; the
   telemetry push with the network it reads; Stats of the bridge build.
3. **Composition.** `MoCAConfig` with `MoCATables`, through
   `is_moca_available` and `moca_enable_db`, which reads of both refresh;
   `MoCAStart` with the threads it makes.
