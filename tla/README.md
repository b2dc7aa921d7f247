# Verification of mfw_feeds

TLA+ models, model-checking runs and proofs for the programs that this
repository itself contains.  Most of `mfw_feeds` is packaging: Makefiles,
configuration and patches of programs whose source is elsewhere.  What is left
is a firewall's WAN failover daemon, a Super I/O GPIO kernel driver, an updater
of intrusion prevention rules, a remote command client and a number of service
and maintenance scripts.  The first four, with the IPsec service script that
writes a file the first one edits, carry nearly all of the repository's own
logic and all of its difficult behaviour; they are what is modelled.

## The system

| component | state it keeps | operations | hard behaviour |
| --- | --- | --- | --- |
| `wan-manager` | verdict file per policy, WAN, family and criterion; status file per policy; one nftables chain per policy (kernel) | `criteria_*` write verdicts (connectivity after up to ten probes), `policy_*` decide, record and install; the main loop waits for the statistics file | statistics rewritten between any two reads; a network that changes between two probes; status file and chain written in two steps; start, stop, kill; retries for ever; missed notification |
| `kmod-gpio-nuvoton` | the chip: extended mode, index, logical device, registers; the I/O region | load with identification, unload, sysfs `store`/`show` of four register files, Wi-Fi LED, exported `cw_gpio_*` | one shared index register behind every access; callers that lock, half lock or do not lock; seven chips with four copies of their layout each |
| `intrusion-prevention` | directory `current/` with the rules of all sources; a saved archive per URL; `working/` | per source: build the list of URLs, compare sizes, download, copy or patch, save | death or failure at every step, with a rule file truncated and not yet written; a server that changes between two requests; patches after half-done runs |
| `pyconnector` | socket, the file made from it, the status file | connect, read and run a command, send the result, reconnect with two delays | a socket that is reset beside a file that is not; lost peers; several instances and one status file, truncated and written in two steps |
| `strongswan-full` | `/var/ipsec/ipsec.conf` | the service script writes it connection by connection, reloads or starts ipsec; `policy_best_of_ipsec_vpn` edits it and restarts ipsec | two writers and nothing that orders them; remotes that are dead; a daemon that ends half way |
| `backup-scripts`, `upgrade-scripts`, `sync-settings/speedtest.sh` | files in `/tmp`, QoS state | one run each | interruption half way |
| `discoverd`, `caswell-*`, `openvpn-proto`, `lldpd`, init scripts, `crash-collector` | none of their own | start services, set LEDs | - |
| `libnftnl`, `nftables`, other vendored packages | - | patches, build files | - |

How they interact.  The statistics generator (not in the repository) rewrites
`/tmp/stats.json`; wan-manager reads it and netifd's interface state and drives
nft.  The settings generator (not in the repository) writes the list of calls
that wan-manager sources.  The Caswell LED scripts reach the GPIO driver
through its LED device and sysfs files.  The updater's rules are read by
Suricata.  wan-manager and the IPsec service script share `ipsec.conf` and the
running ipsec; `IpsecFailover` composes the two with charon, procd, netifd and
the remote gateways.  The other components do not share state with each other:
wan-manager's own module composes the daemon with its generator, netifd, nft and
whoever starts and kills it, the driver's module several callers with the chip,
the updater's module a run with the server, `PyConnector` several instances with
their servers, procd and the status file they share.

What makes them correct.

- wan-manager: sessions only go to WANs that are up; what is recorded is what is
  installed (the daemon skips nft otherwise); when the network settles the
  chains settle on what the policies ask for; rounds end.
- the driver: an access reads and writes the register it was asked for whatever
  else runs; the chip is closed when nobody is inside; files show what was set;
  a chip is driven as the one it is.
- the updater: a success alert and a saved archive are backed by the rule files;
  files are not lost and only go forward; after any failure a later run repairs
  what is left.  It achieves this in part only, see the runs.
- failover of tunnels: the file names the local address of the tunnel's device,
  or the one that is configured; tunnels come to use the best WAN of their policy
  whatever else happens to the file.
- pyconnector: a command is answered on the connection it came by; an instance
  whose server answers gets connected; the status file ends up true.

## Modules

| module | models | |
| --- | --- | --- |
| `PolicyRouting` | what wan-manager promises, without files, rounds and statistics | abstract specification |
| `WanManager` | `wan-manager` and its environment | detailed specification, properties, refinement mapping |
| `IpsecFailover` | `policy_best_of_ipsec_vpn`, `override.ipsec.init`, charon and procd | specification, properties |
| `PyConnector` | `pyconnector`, its procd instances and the command servers | specification, properties |
| `NuvotonChips` | the register layout of seven chips, as setters, getters and the `select` file each have it | constant module |
| `NuvotonGpio` | `nuvoton_main.c`, the chip files, the LED patch, and the chip's front end | specification, properties |
| `RuleFiles` | what the updater promises of the rule files, without runs, downloads and failures | abstract specification |
| `IpsUpdater` | `intrusion-prevention-get-updates` and the rule server | specification, properties, refinement mapping |
| `WanManagerProofs`, `WanRoutingProofs`, `WanRefinementProofs`, `IpsUpdaterProofs`, `IpsecFailoverProofs`, `PyConnectorProofs`, `NuvotonGpioProofs`, `NuvotonReadProofs` | | theorems |
| `MCWanManager`, `MCNuvotonGpio`, `MCIpsUpdater`, `MCIpsecFailover`, `MCPyConnector` | small instances | |

### WanManager

`Config` is the sourced file, a sequence of calls; `at` is the call in progress
and `pc` where the daemon is inside it.  `stats` and `exists` are the statistics
file, `netUp` what `network_is_up` answers, `crit` the verdict files, `pstatus`
the status files, `chain` the nftables chains, `loc` the shell function's
locals.  A shell function is cut into one action per read of something that
another process may change in between: `criteria_up` reads the statistics
(`CriteriaUpRead`) and then netifd (`CriteriaUpWrite`), `policy_best_of` reads
the statistics once per WAN (`BestOfCompare`), `policy_balance` once or, for
LATENCY, twice per WAN (`BalanceTotal`, `BalanceWeigh`).  `criteria_connectivity`
asks for the statistics before every probe (`ConnectivityTest`) and for netifd's
state with it (`ConnectivityProbe`); it stops at the threshold of failures or
when the WAN is offline, and writes its verdict at the end (`ConnectivityWrite`).
`reach` is the set of WANs through which test hosts answer.  `Decide` is the common
end of the `policy_*` functions: record first, nft second, neither when the
decision is the recorded one.  `NftApply` and `NftRetry` are the retry loops.
`WaitTest`, `Arm` and `Wake` are `wait_for_change`: a write counts only while
the watch is armed.  `HandleTerm` may happen between any two actions, because
the shell runs its trap between commands; `KillDuringNft` and `OrphanEnds` are
`kill -9`, possible only when the constant `HardKill` is TRUE.

Abstractions: interface names, log messages and log throttling are left out;
`Probes` is ten in the code; a probe's outcome depends on `reach`, the family
and the protocol, and the time it takes is not modelled;
static and configured weights are the function `SettingsWeight`; ip and ip6
chains are one chain, because one nft transaction writes both.  The call
`criteria_up` makes when a WAN goes down, `handle_down_interface`, is not part
of the repository and touches nothing that is modelled.

### NuvotonGpio

Every access is the sequence of `outb`/`inb` instructions the C code issues
(`Code`), and every instruction is an action, so accesses of different callers
interleave anywhere.  `sio` is the chip's front end (external: extended mode
after two key bytes, index, logical device), `high` the set of register bits
that are 1.  `Take` and `Retry` are `request_io_port`; `Locks` says who calls it
(sysfs and the LED's setter) and `AfterFailure` who heeds its answer (sysfs
only).  `Accesses` lists the accesses of a call: one for a store, one per port
for a file, two for the LED.  `NuvotonChips` holds each chip's tables four times
over, as the C code does, so that a disagreement between the copies is visible.
Loading is a call too: `Identification` gives the accesses of
`nuvoton_get_devid` and `get_io_mapping_addr` as far as what was read so far
determines them, `LookAgain` is the second turn of the loop in `nuvoton_match`,
which the device id with two table entries takes, `Match` the rest of it, `RegisterFiles` and
`RegisterLed` the rest of the init function, which may fail on the way;
`UnregisterLed` and `UnregisterFiles` are the exit function.  `files` says what
is registered and so what can be called (`Offered`).

Abstractions: text parsing and printing of the files; register values are sets
of bits; pins whose port the chip lacks occur only as the getter's -1; the
disabled pin-multiplexing block and the debug reads of the NCT6116D are left
out; the hardware monitor's second port is a byte of the board (`FB`), arbitrary
while the monitor has no port or is not enabled.

Setters are called with any port and bit a user may store.  For a port the chip
lacks, or a bit beyond the byte, they do nothing, with one exception: the last
range test of the `select` setter of the NCT6775F (`port >= 6 || port <= 9`) and
of the NCT6796D (`port >= 6 || port <= 8`) is always true.  A `select` store to a
larger port goes on with its number: it reads LD7/30h, sets or clears a bit of
the value, and writes a byte of it back.  `Select` has these ports too, up to
`AnyPort` (20), beyond which the C code would write outside of the variable;
`Set` and `Changed` make of them what the code does.  So a store to port 10 to
12 of an NCT6775F changes the bit of another port, and `ChangesOnlyAsked`, which
lets a store to a port the chip lacks change nothing, fails for it.  The
repository says nothing of such a store; `NuvotonDriver` includes stores to port
15 on every chip, where the bit is lost in the byte, and to bit 8.

### IpsUpdater

`rev` and `offered` are the server, `current` the revision of each rule file,
`saved` the revision of the saved archive of each URL.  One action per step that
touches a file or the network: `Headers`, `Get` (the server may have changed in
between), `OpenFile` and `CopyFile` per rule file, `ApplyPatch` on the copy,
`RemoveCurrent` and `MovePatched`, `Finish`.  `OpenFile` is copytree opening a
file of `current/` for writing, which empties it; its text is then that of no
revision (`Garbled`) until `CopyFile` has written it.  `Fail` makes the step
fail where the code catches the error, and goes on to the next URL as
`process_all_urls` does; `Die` ends the process anywhere, with a rule file
empty, in the middle of `rmtree` and of writing the saved archive too.  The
constant `SwapBreaks` says whether either may hit the window between `rmtree`
and `move`.

`Changes` says which rule files a revision changes.  A file that was written at
an earlier revision has the text of a later one if nothing in between changed it
(`IsOf`).  patch(1) is external.  It is given the whole directory and no
revision, and looks at the files its patch changes (`Touched`): where they all
have the text the patch was made for (`Fits`) it applies; where one is absent or
has been patched already it does not; and where one has another text, it may
find the context of its hunks or not, and if it does, what comes out is no
revision's text (`MayApply`, `Applied`).  Files the patch does not touch are not
looked at at all.

`RuleFiles` is what a reader of the rule files sees of all this: a source issues
a revision; a file is emptied, or written; a patch changes all its files at
once, and spoils those it was not made for; an archive is remembered once its
files were written, or forgotten.  The mapping takes its `have` to `Kept`, the
directory as it is or, between `rmtree` and `move`, the patched copy that is
about to replace it; so the removal is a stutter and the patch takes effect with
it.

Abstractions: an archive is its source, kind and revision, and has a name of its
own (the script names the saved copy after the last part of the URL, so two
sources whose archives are called the same would share it); a patch leads from
the preceding revision to its own, since nothing in the repository says what the
server's patches start from; revisions change rule files and do not add or
remove any after the first; half an archive is never as large as a whole one,
and the server states a size; the contents of `working/` other than the patched
copy do not survive a step.  One run at a time.  The closing SID report only
logs.

### IpsecFailover

The daemon's part is one call of `policy_best_of_ipsec_vpn` per tunnel and
round: `Look` reads the recorded best WAN, the cached address and the kernel's
policies, and returns early where the code does; `TakeDown` stops ipsec and
moves the tunnel's device; `CopyConf` is awk, `MoveConf` mv, `Restart` the
restart.  `NextTunnel` ends a round with `check_allow_log_update`.  The script's
part is `Reload` (the file is emptied), `AppendConn` per connection, with its
configured `local_gateway` or `%any` as the left side (`LocalGateway`), and
`Written` (reread by a running ipsec, start otherwise); `Respawn` is procd.
`Establish` is charon installing a connection's policies, from the connection's
left side or an address the kernel chooses.  `Matches` says which gateways match
a gateway taken as a pattern by awk and grep.  `moved` is a history variable:
the tunnels whose device was moved and whose left side was not, yet.

Abstractions: a connection is its left side; the decision of the policy itself
is a choice (`PolicyDecides`), since `WanManager` models it; the interval of
`ALLOW_LOG_UPDATE` passes only between rounds that begin when charon has
installed what it can (a minute is longer than that takes).

### PyConnector

`read_from_cmd` with one action per step that another party may see: `Connect`,
`Read`, `Send`, their failures and the delays.  `sock` and `file` are the two
globals, `live` the connections the server still has; Python closes a connection
when neither refers to it (`Held`).  Writing the status file is two steps
(`OpenStatus`, `CloseStatus`), because the text is flushed by the close; `Over`
is what a shorter text leaves of a longer one written in between.  `Die` and
`Respawn` are the end of a process and procd's restart; `ServerFails`,
`ServerReturns` and `Ask` are the servers.

Abstractions: TLS, ports, the contents of commands and the length before a
result.  What a command does to the device is not modelled, nor one that never
returns.

## Runs

| run | shows |
| --- | --- |
| `WanSelect` | two WANs, `best_of` and `specific_wan` with every criterion; safety and refinement |
| `WanBalance` | weights, one of them 0, and latencies, with SIGKILL; ranges tile, also with changing latencies, and records follow the verdicts (1,513,897 states) |
| `WanLive` | rounds end, chains settle, a failed WAN leaves the chains |
| `NuvotonDriver` | loading and unloading ten boards; every operation on NCT6775F, NCT6776F, NCT6779D, with stores to ports and bits they lack; two sysfs users on an NCT5581D, all interleavings of port instructions (205,821 states) |
| `IpsUpdates` | a source with a patch and two full archives beside one with a single archive, three revisions, failures and deaths outside the swap; no file lost or older, what saved archives vouch for, refinement of `RuleFiles`, true alerts, and the second source catches up (286,800 states) |
| `IpsecFailover` | two tunnels on two WANs, one with a configured local gateway, with any two disturbances; file and device agree, tunnels follow their best WAN (191,431 states) |
| `PyConnector` | two instances with any five disturbances; connections, answers and the status file |

Runs that are expected to fail, each the witness of a disagreement between the
code and what the repository says of it:

| run | what happens |
| --- | --- |
| `WanLostWakeup` | statistics written during a round do not wake the daemon |
| `WanLatencyStuck` | latencies that grow between two reads give a negative weight, which nft rejects for ever |
| `Nuvoton6116` | the `inverse` file lists the wrong register for port 8 |
| `IpsStuck` | a death between `rmtree` and `move` leaves no rules, and after that the other source is "already current" for ever |
| `IpsecEdit` | the service script rewrites `ipsec.conf` between awk's copy and mv; the connections it wrote are lost |

Bounds.  Two WANs are enough for every comparison the daemon makes (it compares
the current WAN with the best so far), for ties, and for a map of two ranges;
two policies are enough for one policy's call to see another's state (there is
none to share but the chains).  The statistics take three or four contents,
chosen so that they order the WANs both ways, tie, lose one WAN, lose one family
of a WAN, have the value 0, and list nothing.  Two callers are enough for the
driver, whose only exclusion is one region; `Tries` (6500 in the code) is 2, so
that giving up happens.  On the three loaded chips `NuvotonDriver` gives the
registers ten contents per chip that between them tell any two places apart; the
boards that are not loaded cover every device id, a hardware monitor without a
port, one that is disabled, and an id the table does not list.  The updater needs two
sources, because a patch of one replaces the files of the other, one of them
with two files, so that a copy can stop half way, and three revisions, the
second and third of which change different files: so a patch may meet files that
are older, files that already are its own, files of a text it was not made for,
and leave files alone that are in no order.  The first source has every kind of
archive but a patch for all versions, so that the second and third archive of
its list are tried; the second has one archive, so that it is one that
`AlertsTruthful` and `CatchesUp` speak of, with the other's patches beside it.
Two tunnels are enough for a restart for one to disturb the other and for the
script to be half way; their policies prefer different WANs.  Connectivity tests
probe twice (ten times in the code) with a threshold of two.  Two
instances of pyconnector are enough to overlap in the status file, and an
instance refers to at most two connections, so three names are enough.
Bounds in guards: `MaxRev` (revisions), and `MaxEvents` in `IpsecFailover` (2,
and 1 in `IpsecEdit`) and `PyConnector` (5), which counts what happens around
the programs, never their own steps.

Fairness.  `WF(Step)` in wan-manager: one shell process runs its script, and the
kernel schedules it; nft does not fail for ever on a valid file.  `WF(WriteStats)`
(not assumed in `WanLostWakeup`): the generator rewrites the file periodically.
Nothing is assumed of `Start` (procd does not respawn the daemon), `HandleTerm`,
`NetChange` or kills.  In the updater `WF(Start)` (cron) and `WF(Step)`; nothing is
assumed of failures and the server except, in the property itself, that they
end.  In `IpsecFailover` weak fairness of the daemon, the script and procd, and
strong fairness of charon's `Establish` for every tunnel (it tries again while
its remote answers, between the restarts of other tunnels) and of a round in
which the log interval passes (it does every minute).  In `PyConnector` weak
fairness of every instance's steps, which includes keep-alive probes that end a
read from a lost peer; deaths, outages and commands are only required to end by
`MaxEvents`.  `PyConnector` may stop: connected instances wait for commands, so
deadlock is not checked there.

Which chips and callers a run covers follows from what holds.  `RestsClosed` is
checked on the NCT5581D; on the NCT6796D it fails, because the files list a port
9 that the chip lacks and its getter then returns with the chip open.  The
`select` files of the NCT6104D and the NCT6796D read another logical device than
storing to them writes, as the tables of `NuvotonChips` show side by side, so
`ShowsWhatWasSet` fails there as it does on the NCT6116D.  `ChangesOnlyAsked`,
`RestsClosed` and `ShowsWhatWasSet` need callers that take the region and heed a
failure; the exported `cw_gpio` functions and the LED do not, and nothing in the
repository says they may run beside others, so they only run alone.
`Identified` excludes boards with the shared device id whose hardware monitor
has no port, where the register that tells the two apart is read from nowhere.
The runs of the updater give every revision a size of its own; with equal
sizes `AlertsTruthful` fails, because the updater compares nothing else.

What the updater does not achieve.  Besides what `IpsStuck` shows, the model does
three things that differ from what the script's messages say, and the properties
are stated so as to leave the first two out:

- A rule file is truncated before it is written (183), and a run that dies or
  fails in between leaves it empty.  If the source has a second archive, for its
  Suricata version, for all, or a patch, which an earlier run saved at the
  server's revision, then every later run finds that one "already current" (132)
  and never looks at the file.  `CatchesUp`, and `AlertsTruthful` for "already
  current", hold of sources of one archive (`OneArchive`) and fail without that.
  With one archive the run that spoils a file has found an older one saved, and a
  later run installs the newer one again.
- A patch is accepted on whatever files patch(1) finds its context in, full
  archives copied half among them; the run then saves it and reports
  "Successfully updated" (321).  `AlertsTruthful` speaks of full archives;
  `NeverOlder` and `SavedIsInstalled` say how far the damage goes.
- The warning that "Applying a patch will replace any rules from other sources"
  (192) is not what happens: the patch is applied to a copy of the whole
  directory (200), so the rules of other sources come to no harm, and `NeverOlder`
  and `UpdatesRuleFiles` say that they do not.  They follow the code.

What SIGKILL does.  `kill -9` while nft runs leaves a process behind that may
install the old decision after a new daemon's.  `StatusMatchesChain`,
`RoutesOnlyToUpWans` and the refinement of `PolicyRouting` fail then, whatever
the instance, so the runs and theorems about them set `HardKill` to FALSE and
show nothing of that case.  `WanBalance` sets it to TRUE; its properties concern
the records, which no orphan writes, and the ranges in every chain, which an
orphan may install late but does not change.  `BalanceTiles` is arithmetic: a
range of a negative weight tiles as well, and what that does to the daemon is
`RoundsComplete`'s matter (`WanLatencyStuck`).

## Proofs

Those about `WanManager` are for every set of WANs and policies, every
configuration and every content of the statistics, under the assumptions named
in that module (WAN ids are naturals, the glob order is total, the file calls a
policy's `policy_*` last and calls one for every policy).

- `TypeCorrect` (`WanManagerProofs`): `Spec => []TypeOK`, one step per action.
- `CriteriaAgreement` (`WanRoutingProofs`): after a round, every record follows
  the verdicts.  `StatusFollowsCriteria` speaks only of the end of a round, so
  the invariant `FollowInv` says it of every call already behind `at`, and
  `JudgedUp` that the WANs in a function's locals are up; `crit` does not change
  for a policy after its `policy_*` call, because that is its last call.
- `TilesAlways`: the ranges tile.  `TilesInv` carries the property from the
  locals through the record into the chain, and through an orphaned nft.
- `StatusAgreement` and `RoutesGoUp`, assuming `~HardKill`: `RecordedInv` adds
  to the property that no orphan exists and that in the window between the two
  writes the locals hold the recorded decision.
- `Implements` (`WanRefinementProofs`), assuming `~HardKill`: the refinement of
  `PolicyRouting` under the mapping at the end of `WanManager`; every action is
  a `Judge`, `Resolve`, `Install`, `Restart` or a stutter.

The assumption `~HardKill` is necessary: an nft process that `kill -9` leaves
behind may install the old decision after the new daemon's, which the status
file then misstates until the next change (`WanBalance` with `StatusMatchesChain`
shows it).

Those about `IpsUpdater` (`IpsUpdaterProofs`) are for every list of sources,
every division of rule files among them, any number of revisions and every
behaviour of the server.

- `TypeCorrect`: `Spec => []TypeOK`, without further assumptions.
- `OnlyForward` and `SavedBacked`: `NeverOlder` and `SavedIsInstalled`, assuming
  `~SwapBreaks`.  Neither is inductive: whether `CopyFile`, `MovePatched` or
  `Finish` takes a file back depends on what the run found steps earlier.  The
  invariant `Progress` says it: no saved archive is newer than the one at hand,
  nor that than the server's; while copying, what is no longer left is at the
  archive's revision; the patched copy is the directory with the patch applied;
  and at `Finish` the files the archive brings are at its revision or, for a
  patch, spoiled.
  `~SwapBreaks` is needed where files would be lost, and `IpsStuck` shows that it
  is.  What they do not say is that a file has its text: a full copy that breaks
  leaves it empty, and a patch may spoil it.  `NeverOlder` says who may spoil
  which file and when.
- `AlertsTrue`: `AlertsTruthful`, assuming `~SwapBreaks` and that archives of
  different revisions differ in size, since the script compares nothing else.
  After a full archive `Progress` is enough.  For "already current" what makes it
  inductive is `AsRemembered`, that the files of a source of one archive, if that
  is saved at the server's revision, are of it too, and `Single`, that a run that
  gets as far as copying such a source has found an older one saved.  Patches of
  other sources and broken copies of this one may come in between.
- `Implements`: the refinement of `RuleFiles`, assuming `~SwapBreaks`; every
  action is an `Issue`, `Empty`, `Write`, `Patch`, `Remember`, `Forget` or a
  stutter.  That a patch changes the files of its own source and no others rests
  on the part of `Progress` about the patched copy, so that nothing another
  source installed is taken back.

Those about `IpsecFailover` (`IpsecFailoverProofs`) are for any WANs, addresses,
tunnels and number of events.

- `TypeCorrect`: `Spec => []TypeOK`.
- `DeviceAgrees`: `DeviceMatchesConf`, for any configured local gateways,
  assuming that a gateway, taken as a pattern, matches only itself
  (`ExactGateways`; without it the property fails).  A reload after a failover
  writes the configured gateway again while the device keeps the new address, so
  the property allows the two; that the next round edits the file again is
  `FollowsBestWan`'s matter.
  The property says nothing of the copy that mv will put in place, so the
  inductive invariant adds it: between awk and mv, what the copy says of the
  other tunnels agrees with their devices, and of this tunnel with the address
  the daemon moves it to, which its device has.

Those about `PyConnector` (`PyConnectorProofs`) are for any set of instances and
number of events.

- `TypeCorrect`: `Spec => []TypeOK`.
- `ReadsFromItsConnection`: `ReadsItsConnection`.  While the status file is
  written on the way to a read, `pc` is "open" or "write" and the property says
  nothing; the inductive invariant says it of the step to come (`next`).

Those about `NuvotonGpio` in `NuvotonGpioProofs` are for any number of users of
the sysfs files, any loaded boards with any of the seven chips, any register
contents, any jobs and any number of attempts at the region.  The assumption
`FilesOnly` says just that: the module is loaded and everybody goes through the
files.  It is needed, because the LED and the exported functions use the chip
beside whoever holds the region.

- `TypeCorrect`: `Spec => []TypeOK`.
- `AlwaysRestsClosed`: `RestsClosed`, assuming also that the files list only
  ports the chip has (`Listed`, which holds of every chip but the NCT6796D).
- `StoresTakeEffect`: `StoreTakesEffect`.
- `OnlyAskedChanges`: `ChangesOnlyAsked`, assuming also that nobody stores to the
  `select` file of an NCT6775F or NCT6796D with a port the chip lacks
  (`OwnPorts`), because that store changes the bit of another port.  The other
  theorems hold with such stores, up to port 20.

All four follow from one invariant.  Nothing in the properties speaks of the
middle of an access, so `Position` says for each of its instructions what the
chip's front end is like before it: open from the third on, at the access's
logical device from the fifth, at its register when data are read or written;
that what has been read is what the register still holds when it is written
back; and that after the write the bit has its value.  `OneInstruction` shows
that each instruction leads from one position to the next, whatever state the
front end was left in before the first, `StepInside` that this is all that a
step of the one caller inside changes, and the others are outside because the
region has one owner.  The lemmas about the tables go through the seven chips.

`NuvotonReadProofs` is about what the driver reads.

- `FilesShowWhatWasSet`: `ShowsWhatWasSet`, assuming `FilesOnly` and that every
  file somebody shows is one whose tables agree (`Agreeing`): direction and
  level on every chip; inversion on all but the NCT6116D; `select` on the
  NCT6775F, NCT6776F and NCT6779D, and on the NCT5581D and NCT6116D if the
  firmware has set no select bit that belongs to no port.  Where the tables do
  not agree the property fails, as `Nuvoton6116` shows for one.  A file takes an
  access per port, so the property needs an invariant over all of them:
  `Remembers` says that what the reader has been answered so far is what the
  registers still hold, since whoever stores must wait for the region.
- `ChipsAreIdentified`: `Identified`, for any boards, callers and operations,
  loading and unloading included.  The assumptions are those the module names:
  a board of a known chip answers with that chip's id (`GenuineAssumption`), and
  callers call nothing but the driver's operations (`JobsAssumption`).  `LoadInv`
  says that whoever loads is alone, and `Finding` where in the script it is:
  how many accesses it has made, what each was answered, and that the chip's
  front end is where `Position` has it.  The script is not fixed in advance, as
  `Identification` gives the next accesses by the answers so far; `Scripts`
  lists its stages, and one lemma per kind of access says what it is answered.

Only model-checked: the liveness properties (the prover does no liveness under
fairness), and the driver's properties other than `Identified` where the module
is loaded or unloaded, or called through the LED or the exported functions.

## Not modelled

In the modelled components: the driver's variant for kernels before 2.6.19,
which is not compiled; two updater runs at once, which share `working/` without a
lock; in the service script the secrets, `strongswan.conf` and the options of a
connection other than its two ends; the look-up of a server's name and the wait
for restd before pyconnector starts, which keep no state.

Other components, with reasons in `PROJECT.json`.  What is left in the
repository is straight lines of calls without state of their own
(`upload-backup.sh`, `upgrade.sh`, `speedtest.sh`, LED and monitor loops, service
descriptions), patches of third-party libraries, and packaging.

## Plan

Done, in this order: `PolicyRouting`, `WanManager`, its proofs; `NuvotonChips`,
`NuvotonGpio`; `IpsUpdater`, its proofs; the connectivity probes; loading and
unloading of the driver; `IpsecFailover` and `PyConnector`, with proofs; the
driver's proofs; `RuleFiles` and its refinement; what files show and how chips
are identified, proved.

Next:

1. the driver's safety properties proved for a single caller with every
   operation, the LED and the exported functions among them;
2. an abstract specification of a remote command service, which `PyConnector`
   implements;
3. `speedtest.sh` with interruptions, beside the service that configures QoS.
