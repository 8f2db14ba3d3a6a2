# Phare protocol: specification and proofs

TLA+ modules of the Phare protocol, TLC configurations that check them on small
instances, and TLAPS proofs of what matters most for every value of the constants.
Everything below refers to the source by path and line.

    tlc -workers 2 -config MCReportRegistry.cfg MCReportRegistry.tla
    tlapm ReportRegistryProofs.tla
    tlapm ReportRegistryAccounts.tla
    tlapm SwarmProofs.tla
    tlapm VerifierAgentProofs.tla
    tlapm ReportSubmitProofs.tla
    tlapm ImagerDownloadProofs.tla
    tlapm OrchestratorProofs.tla
    tlapm SkillRegistryProofs.tla

`PROJECT.json` lists the components, the runs with what each shows, the map from
definitions to source lines, a mutant for every checked property, the findings and
the hazards.

## 1. The system

A reporter photographs a vessel, pins metadata to Swarm and submits a bonded report
on chain. The report is an assertion on UMA's optimistic oracle: inside a window any
verifier may dispute it by posting an equal bond; otherwise it settles as true.
Upheld reports name the vessel in ENS; false ones are slashed 50/30/20 between the
disputer, a slash pool and the treasury. Autonomous verifier agents watch for new
reports and dispute the false ones. An orchestrator fetches satellite imagery and has
corroborations signed, which are bound to upheld reports.

| Component | State | Operations | Talks to |
|---|---|---|---|
| `contracts/src/ReportRegistry.sol` | reports, assertion map, per-vessel counters and named flag, wired Lighthouse | `setLighthouse`, `submit`, `assertionDisputedCallback`, `assertionResolvedCallback`, `attest` | token, oracle, pool, Lighthouse |
| `contracts/src/SlashPool.sol` | deposits per report, total | `depositSlash` (anyone) | token |
| `contracts/src/Lighthouse.sol` | none of its own: names and records live in the ENS NameWrapper and resolver | `nameVessel`, `recordSighting`, `recordOrbital` (registry only), `enrollVerifier` (anyone) | NameWrapper, resolver |
| UMA OptimisticOracleV3, bond token, NameWrapper (external) | assertions, balances, names | assert, dispute, vote, settle; transfer; mint | call the registry back |
| `contracts/script/*.s.sol` | none | deploy, wire, approve; submit; settle | contracts |
| `skill/src`, with the two fixture tools of `agent/tools` | none of its own: what a run has read | `submitReport`, `settleReport`, `disputeReport`, `attestOrbital`, several requests and transactions each | chain |
| `agent/tools` | `state.json`, `wallet.json`, `decisions/` | onboarding, then per tick: poll, evaluate, dispute, pin, record | chain, Swarm, skill |
| `swarm-kv/src` | a value feed per key, an index feed, an index cache | `put`, `del`, `get`, `list`, `entries` | Bee gateway |
| `swarm/src` | none | verified fetch and pinning | Bee gateway |
| `orbitalImager-sdk/src` | `packets/`, `state.json` per image | resumable download, recompose | plugin gateway |
| `orbital-orchestrator/src` | `state.json` and two ledgers rendered from it | a pipeline run per POST or command line | imager, Swarm, ENS, chain |
| `web/app`, submission | React state of the hook and the modal | compose, wrap, approve, submit, auto-settle, cancel | wallet, Swarm, chain |
| `web/app`, reads | rows of each polling hook, the selected vessel | poll, hydrate, select | chain |
| `minter`, `suggester` | stubs (`package.json` only) | | |

What makes each of them correct, and what is hard about it:

- **Contracts.** The registry learns of the oracle's steps only through callbacks, pays
  all reports out of one balance, and calls ENS from inside a callback, so a failure
  there undoes a settlement. Correct means: the registry's view and the oracle's agree;
  reports and assertions correspond one to one; every open report is funded; a settled
  report is final; the public ENS records are those of upheld reports; every report can
  be settled.
- **Verifier agent.** A process that may crash between any two tools, a cursor over
  blocks, counters in a file, and other verifiers racing for the same dispute. Correct
  means: no report inside its window is forgotten, and what the agent records as its
  disputes are its disputes.
- **Skill library.** Amounts are read, approved and pulled by separate requests, receipts are not
  read, and tools share a key. Correct means: a tool is refused only for a cause, and what it
  reports as done is done.
- **Swarm-KV.** Two feeds written one after the other through a gateway that lags.
  Correct means: the index lists exactly the live keys once writes have completed, and
  never a key that was never written; the writer's own list agrees with the calls that
  have returned to it.
- **Verified fetch.** A gateway that answers with whatever it likes. Correct means: a read
  that returns returns what was pinned, or what the owner signed for that identifier.
- **Imager.** Files written one at a time, a kill between any two, packets removed by hand,
  a plugin whose fixture is replaced. Correct means: a resumed download never loses or
  repeats a packet, composes only a complete image, and completes.
- **Orchestrator.** Runs of minutes that share a session directory, a state file and a name.
  Correct means: what a run answered is in the ledger, the ledger, its renderings and the
  chain agree, and a run knows under which handle it acts.
- **Web, submission.** Several transactions, cancellation that cancels nothing, a timer and
  closures of earlier renders. Correct means: the modal never waits for nothing, what it
  shows in the end is one submission, funds checked are funds there, reports get settled.
- **Web, reads.** Overlapping loads, answers out of order, rows torn between blocks, a window
  that moves. Correct means: every view comes to hold what the chain says.

The hazards in `PROJECT.json` name the line at which each of these bites, and the
property that would catch it.

## 2. Modules

| Module | Models | Role |
|---|---|---|
| `BondToken` | the ERC-20 bonds are paid in (external) | operators on `balance` |
| `SlashPool` | `SlashPool.sol` | state and operations of the pool |
| `OptimisticOracle` | UMA's oracle (external) | assertions, votes, payouts, minimum bond |
| `Lighthouse` | the vessel half of `Lighthouse.sol`, with the NameWrapper's rules (external) | names, fuses, text records |
| `ReportRegistry` | `ReportRegistry.sol`, composed with the four above | the system specification and its properties |
| `BondedClaim` | nothing: the abstract promise | what `ReportRegistry` implements |
| `Totals` | nothing: sums | totals over a finite set without recursion, for the properties about money |
| `MCReportRegistry` | | constants for TLC, symmetry, and what fails only with some constants |
| `ReportRegistryProofs` | | the inductive invariant, solvency, finality, the refinement, names, records and corroborations, proved |
| `ReportRegistryAccounts` | | the counters, the pool's books and every balance, proved |
| `SwarmKV` | `swarm-kv/src/index.js` | one writer's calls, the gateway, readers |
| `MCSwarmKV` | | symmetry, and a next-state relation in which nothing fails |
| `VerifierAgent` | `agent/tools`, `disputeReport` and `enrollVerifier` of `skill/src`, the mint of `Lighthouse.enrollVerifier` | one agent, its files, the chain as it sees it |
| `MCVerifierAgent` | | a next-state relation in which no tool fails |
| `VerifierAgentProofs` | | the inductive invariant and its proof |
| `FileSystem` | `node:fs` on one directory (external) | open-and-truncate, put, rename |
| `ImagerDownload` | `orbitalImager-sdk/src/imager.mjs` | downloads of one image, over `FileSystem` |
| `ResumableDownload` | nothing: the abstract promise | what `ImagerDownload` implements |
| `ImagerDownloadProofs` | | the inductive invariant and its proof, and the refinement |
| `Orchestrator` | `orbital-orchestrator/src` | pipeline runs, composed with `ImagerDownload` |
| `OrchestratorProofs` | | the inductive invariant and its proof; the imager's invariant under the runs |
| `ReportSubmit` | `useReportSubmit.ts`, `ReportModal.tsx` | pipelines of the hook, the chain as it sees it |
| `ReportSubmitProofs` | | the inductive invariant and its proof |
| `VesselTable` | `chain.ts`, `useVessels.ts`, `useVerifiers.ts`, `page.tsx` | polling views of the chain |
| `SkillRegistry` | `skill/src/registry.js`, `publish-vessel-fixture.mjs`, `publish-mock-orbital.mjs` | runs of the tools, the chain as they see it |
| `SkillRegistryProofs` | | the inductive invariant and its proof |
| `VerifiedFetch` | `swarm/src/index.js` | verified reads and pinning |
| `SwarmProofs` | | the inductive invariants of `SwarmKV` and of `VerifiedFetch`, which share nothing, and their proofs |
| `MCImagerDownload`, `MCOrchestrator`, `MCReportSubmit`, `MCVesselTable`, `MCVerifiedFetch`, `MCSkillRegistry` | | symmetry where there is any, and the wallets of the tools |

`BondToken`, `SlashPool`, `OptimisticOracle` and `Lighthouse` each own variables and the
operators on them. `ReportRegistry` EXTENDS them and has one action per transaction:
because a transaction takes effect as a whole or not at all, an action conjoins every
`require` on its path, in the registry and in every contract it calls, with all the
effects. `Submit` is therefore the pull of both bonds, the hand-over to the oracle, the
assertion and the record; `SettleTruthful` and `SettleFalse` are the oracle's payout and
the whole callback, ENS calls included; `DisputeAssertion` is the bond, the oracle's
record and the registry's callback. Intermediate balances (`paid`, `split1`, `split2`)
are checked in the order in which the code makes the payments.

Lines of the registry: `submit` 198-270, resolution callback 280-320, dispute callback 325-335, `attest`
345-372, `_onTruthfulSettlement` 382-403, `setLighthouse` 183-189.

Abstractions of the contract modules, all of them of data:

- Allowances are left out: each is set and used up inside one transaction (or, for the
  reporter's, set by the caller right before it).
- A report's photo hash, AIS flag, metadata reference, country, cargo and position are one
  value `meta`; an orbital image, its hash and the prediction are one value `image`. The
  image reference that is emitted but not signed (`imageSwarm`) is part of neither.
- Time is the action `LivenessElapses`: nothing in the contracts compares timestamps; the
  oracle does.
- `uint32` counters and `uint96` bonds are natural numbers: the widths cannot be reached
  (a counter needs 2^32 settlements, a bond 2^96 token units, which UMA's minimum bond is
  far below).
- Names do not expire and approvals are not revoked. Only the owner of the parent names
  could do the latter; it would stop settlements of unnamed vessels until undone.
- The attestor signs corroborations of submitted reports only.
- Nobody sends tokens to the registry or to the pool outside their functions (`depositSlash` apart, which others
  may call), and nobody opens an assertion in another's name: `AssertElsewhere` has the asserter pay. Neither would take
  anything from a report; a gift would add to the balances that `BalancesExplained` and `PoolAccounted` compare.
- Shares may go to the same account (the treasury may be anybody but the registry); the
  registry itself is neither reporter nor verifier, since it has no function that would
  make it one.

### SwarmKV

A call of `put`, `del` or `list` is cut where the code awaits the gateway. `call[c].stage`
says what it waits for: the update of the key's own feed (`value`, then `valueAccepted`
when the gateway has taken it), the download of the index (`download`, `downloaded`), the
index update (`index`, `indexAccepted`). `AcceptValue`, `LookUpIndex` and `AcceptIndex` are
the gateway's side of a request; `ValueWritten`, `IndexRead` and `IndexWritten` are the code
that runs when the answer arrives, up to the next `await`. Several calls of one process
may overlap, as JavaScript lets them. A list of keys is a set (the code sorts it), and fits
in an update when it has at most `IndexCapacity` keys, which stands for 4096 bytes. A
failed read for a reason other than 404 and a failed write both reject (`RequestFails`);
when this happens after the gateway took the update, the answer was lost. `Restart` is a
new `KV` object with the same key pair.

Assumed of the gateway and of bee-js: an accepted update becomes the next one of its feed;
lookups of the index may return an old update, but not one older than what it has converged
to (`shown`); the requests of a process that ends are not carried out after it. `told`, `ours`
and `mishaps` are history variables: what the last call on each key did if it returned (kept
over restarts), the keys whose call returned in this process, and whether calls overlapped, a
request failed, the answer to an index update was lost or a lookup was stale.

### VerifierAgent

Each tool of `agent/tools` is cut where it awaits the network and before each file it writes.
`tool.at` names the next step; `Stop` (as `Interrupt`, or as `Tear` when a file is being
rewritten in place) may come between any two. `hand` is the candidate list that
`poll-uma` printed and the tick still has to deal with. `Send` is viem's gas estimate, which
refuses a transaction that would revert now; `Confirm` is the transaction being mined, with
whatever effect it then has, since the receipt's status is not read (`registry.js:221`,
`lighthouse.js:78`). The order of the tools in a tick is that of `agent/HEARTBEAT.md` and
`SKILL.md`, which the agent follows, and which are program text for it: `Skip` is their rule
for a report whose metadata cannot be fetched, `Stop` their rule to end the tick when a
tool fails.

The identity is an `edition` of `data/policy.json` and `data/soul.md`, which their owner may
edit at any time (`EditIdentity`). `Enroll` pins the two as they are and mints the name with
them, or with what `POLICY_URI` and `SOUL_URI` name instead (`NoEdition`).
`PublishIdentity` pins them again; the tool carries that edition through two `SetText`
(`setVerifierText`, which only the owner of the name gets through), and saves it in
`state.json`, from where `publish-stats` puts it, policy first, then soul. Stopped on the way, and run
again with other files, the records, `state.json` and the KV hold different editions; running
`publish-identity` to its end once more makes them equal again, the KV's too after a
`publish-stats`. That `enroll` mints a placeholder, as `publish-identity.mjs:7` has it, is no
longer so: `enroll.mjs:5` pins first.

A decision file is written by `dispute`, uploaded by `pin-reasoning` (`Upload`) and rewritten in
place with its reference (`SavePin`), where it may be torn. `set-last-decision` writes the
reference it is given, or a stub (`None`), and looks at no file.

Assumed: tools run one at a time and ticks do not overlap; `MAX_SCAN_RANGE` covers the
window of a report and the time the agent was down; a transaction whose tool was stopped is
mined at once or never; the statuses that one poll reads are read together; the two files of an identity
are edited together. Left out: the `handle` key, which is constant after enrolment; the other
counters; `status.mjs`, which only reads.

Two states the model reaches are promised by nobody and stated here instead: after a torn
`state.json` every tool fails for good, since `readState` parses it without a fallback; and
a crash between the mined enrolment and `enroll.mjs:75` leaves a name that is owned and a
phase that is not `running`, from which each later `enroll` is refused.

### FileSystem, ImagerDownload, ResumableDownload

`FileSystem` keeps for each path its text and the processes that have it open. `writeFile` is
two steps: it empties the file, then puts the bytes; a process killed in between leaves it
`Torn`. `rename` moves the file with its writers, which is what makes the fixed name
`<path>.tmp` of `atomicWrite` (`imager.mjs:59-63`) interesting when two downloads share it.

`ImagerDownload` cuts a call where it awaits the gateway and before each file operation.
`dl[s].mem` is the state object the call holds, `.todo` the packets it has still to fetch.
The list of downloaded packets is a set: nothing reads its order, and a packet that is listed is not
asked for again.
Contents are fixture versions: the packets and the metadata of one fixture verify against
each other and against no other's. `complete` is modelled because the code writes it; it is never
read. `ResumableDownload` is the promise of the comment at `imager.mjs:14-16`: a packet that is kept is
not downloaded again, and an image is composed only when all are there. It has a step for each
download: `Fetch` of a packet that is neither kept nor on its way, then `Keep`, or `Waste` when the
call ends first. Kept means listed and stored. A packet that was renamed into place when the call was
killed, but not yet listed, is downloaded again by the next call: the code does that, and the
specification allows it.

Kills end processes, not the machine: what was written is there. Left out: `--no-verify`;
`fetchImagery` in `index.mjs`, one request and one plain write (its comment at line 116 says the
write is atomic); the Python twin of the client; repeated numbers in `indexes`.

What the model shows and no document promises otherwise: a call that fails with a new
fixture being served keeps failing until `state.json` is removed by hand, which is why
`DownloadCompletes` assumes the same fixture; with overlapping calls a rename may find its
`.tmp` gone and throw, a kill may leave a torn packet under its final name which
`reconcile` (it asks only for existence) never notices, and a finished download can be refused
with "refusing to recompose with gaps" because another call wrote a shorter list.

### Orchestrator

`run[s]` is one `POST /process` or command line, cut at every await of `pipeline.mjs`; the
first part of it is a download of `ImagerDownload`, which the module EXTENDS, in a session directory all runs share.
A run's number stands for its timestamp. The ledger entry of a vessel or a handle is the
number of the last run recorded under it: the records themselves are replaced whole.
`ledgers` is a second instance of `FileSystem`: `state.json`, and the two Markdown files rendered from
the same object. A state file that does not parse counts as empty (`state.mjs:16-18`).
The name of the orchestrator on chain is looked up, minted and written as `onchain.mjs` does,
where each error is caught and the run goes on.

Left out: an explicit `verifierHandle`, the wording of records, inference (a pure function of
the position), `attestOrbitalForReport`, which exists and is called by nothing
(`onchain.mjs:129`; `README.md:151`, `:166` and `:292` describe a listener that would call it).

### ReportSubmit

A click starts a pipeline, cut at every await; `ui` is the one React state all pipelines
write. `cancelledRef` is set and never read (`useReportSubmit.ts:198-201`), so `Cancel` resets
`ui` and nothing else. A continuation after wrapping runs in the closure of the first
render (`:241`), whose form holds no photo: `Allowed` says what then happens. The chain is a
balance, an allowance, and per pipeline the submit transaction, the settle transaction and
the claim with the bonds it paid. `bond` is what a submission mined now pulls (the
registry's bond, immutable, and UMA's minimum, which moves in `BondMoves`); `total` in a pipeline's record is what the
pipeline read of it (`:487-500`) and approves, several awaits before. `Reload` ends every pipeline and leaves to the chain what was sent; `abandoned`
records that a pipeline or its pending transaction was left behind. Receipt statuses are not read (`:135`, `:551`), so `ReadReceipt` and `ReadSettled` take any
receipt. The liveness is read outside the `try` of the settlement (`:112`): its failure is
one of the pipeline. Amounts are in units of WETH, of which a wrap adds `WrapAmount`.

Left out: the texts of steps and errors, `connectWallet`'s own dialogue (an await that is
answered or throws), the oracle address being unset (the timer is then not started; the
mutant `LeaveToOthers` is that case), and the reading of a photo's bytes (`ingestFile` awaits them,
`:176-187`; in the model the form changes at once, so a photo does not arrive after the click that submits
another one).

### VesselTable

A load reads the block number and the events, then the parts of each row, each from the block
of the moment: of a vessel the registry's counters and the resolver's records, of a verifier
what it was enrolled with and its last decision. A part stands for the fields that one
transaction writes together, and holds the block that last wrote it. Loads of one view
overlap; an answer replaces the rows whole. `error` hides the rows until the next load
succeeds. `Found` is what the scan window shows. The globe and the vessel table are two
users of `useVessels`, the verifier table is one of `useVerifiers`; they share nothing but the
chain, so that a behaviour follows either the first two or the third (`Together`). Dossiers
and the globe only draw.

### SkillRegistry

`run[p]` is one run of a tool, cut at every await of `registry.js` and of the tool's own script:
`at` is the await, `total` the amount it has read and not yet paid, `sent` a transaction that
passed the estimate (`writeContract`) and is not mined. Whether it then succeeds is decided when it
is mined (`Succeeds`); no tool reads a receipt's status, so `Reverts` lets it go on, except that a
reverted `submit` leaves no `Submitted` event and the next call throws. An approval is one step,
since nothing makes it fail. The oracle and the registry are reduced to what makes these
transactions revert, and the vessel's record to `log`, the reports that wrote it in order.
`moved` and `shared` are history variables: runs whose minimum bond changed between the read
and the use, and runs that paid bonds, or were about to, from one account at once, as two
publishing runs do with the deployer's key (an attestation costs no bond and marks nobody).
`overtaken` is a third: disputes and attestations that stopped being possible between their estimate and
their mining. Every step updates it (`Overtakes`), which is why it stands beside `SkillStep` in
`SkillNext` and not in each action.
`ClockAssumption` says what the buffer of `publish-vessel-fixture.mjs:117-124` is for: the tool's
clock is ahead of block time by no more than the buffer.

Left out: `autoWrap = false` and an explicit `approveAmount`, which no caller passes; what the losing
side of a dispute gets; gas; a settlement or attestation that reverts because the registry's own call to
Lighthouse or ENS does (`ReportRegistry.sol:370, 391`), which `ReportRegistry` models.

What the model shows and no document promises otherwise: the orbital tool answers `ok` for an
attestation that reverted because another one came first; the comment at `registry.js:79-80` says
the approval is made "if not already approved", and the code always makes it (`:103`), which is what
lets two runs on one account undo each other's.

### VerifiedFetch

A hash is the tuple of what is hashed, a signature the record of who signed what: both
assumptions of the code. The gateway may answer a read with any content, and build any
chunk of parts it has seen (`Chunk`), so that the signature of one update may come with the
payload of another. That a signed older update is served is not excluded: a single-owner
chunk has no version, and the code does not claim one.

## 3. Runs

The `MC` modules hold what TLC needs beyond the modules: symmetry sets, next-state relations
with fewer faults, and the promises that fail.

| Run | Configuration | Asks |
|---|---|---|
| `registry` | 2 reports, 2 vessels, 2 metadata values, 1 image, minimum bond 2 or 4, wired first | is every reachable state of the five contracts right? |
| `registry_late_wiring` | 2 reports, 1 vessel, minimum bond 2 or 3, set-up at any time, outside deposits | do they implement `BondedClaim`, and does every report settle? |
| `kv` | 3 keys, 1 value, 2 callers, lists of at most 2 keys, 2 index updates | what may the lists contain when calls overlap, requests fail and the gateway lags? |
| `verifier_agent` | 2 reports, 1 of them fake, funds for 1 dispute, 2 editions of the identity | what survives crashes, torn files and rivals? |
| `skipped_report` | 3 reports, no tool fails but the fetching of metadata | does a skipped report come back? No |
| `imager` | 1 caller, 3 packets, 2 fixtures, 4 faults | does an interrupted download resume, and complete? |
| `orchestrator` | 2 runs, 2 vessels, 2 packets, 2 fixtures, 1 fault | do ledgers, chain and answers agree, and what do overlapping downloads leave? |
| `submit` | 2 pipelines, bond 2 or 3 moving once, balance 1 or 2, a wrap adds 1 | what may the user see, and does the chain follow? |
| `wrap_then_submit` | the same | does the submission go on after a wrap? No |
| `skill_tools` | 2 publishing runs and 1 orbital run with one key, 1 disputer, minimum bond 1 or 2, 1 fault | why may a tool be refused, and what does its `ok` say? |
| `verified_fetch` | 2 owners, 2 identifiers, 2 contents, one of them not JSON | is what is read authentic? |
| `vessel_table` | 1 vessel in 2 views or 1 verifier in 1, 2 loads each, 3 blocks, 1 failure | do the views catch up with the chain? |

**Further configurations**, kept beside the listed runs because each exhibits one known
limit and nothing else; TLC finds the property violated in each.

| Configuration | Property | Shows |
|---|---|---|
| `MCSmallBond.cfg` (`MCReportRegistry`) | `FalseVerdictSlashes` | with a protocol bond of 3 a false report cannot be settled |
| `MCCounterBond.cfg` (`MCReportRegistry`) | `CounterBondCompensates` | the loser's counter-bond stays in the registry |
| `MCRedeployed.cfg` (`MCReportRegistry`) | `UndisputedIsUpheld` | a name sealed by an earlier deployment blocks a settlement |
| `MCSharedWriter.cfg` (`MCSwarmKV`) | `SingleProcessIsSafe` | overlapping puts lose a key although nothing fails |
| `MCStaleRestart.cfg` (`MCSwarmKV`) | `SingleProcessIsSafe` | after a restart, one stale lookup of the list hides a key that was put |
| `MCLostRace.cfg` (`MCVerifierAgent`) | `CountedDisputesAreOwn` | a dispute that reverted is counted |
| `MCSharedSession.cfg` (`MCImagerDownload`) | `PicksUpWhereItLeftOff` | of two overlapping downloads the second downloads again a packet the first has listed since |
| `MCLostEntry.cfg` (`MCOrchestrator`) | `EveryVesselSeenIsKept` | nothing fails, but of two overlapping runs the later save drops the other's vessel |
| `MCLockedModal.cfg` (`MCReportSubmit`) | `LockIsReleased` | after an error past step 4 the modal cannot be closed |
| `MCOldMint.cfg` (`MCVesselTable`) | `EveryMintIsListed` | without a deploy block, mints older than the window vanish |

What the properties of the contracts say:

- `StatusAgreesWithOracle`: pending iff unsettled and undisputed, disputed iff unsettled
  with a disputer, settled with the outcome the voters or the window gave; the recorded
  bond is the assertion's.
- `OneAssertionPerReport`: `assertionToReport` and `reports[..].assertionId` are inverse to
  each other, although others open assertions that name the registry as recipient.
- `Solvent`: the registry holds one protocol bond per open report.
- `BalancesExplained`: every account's balance is what the outcomes of its reports and
  disputes say; the registry holds the open bonds and exactly the winnings of disputes. A
  party that plays a second part (a reporter that is also a verifier or the treasury) has no
  sum of its own, and a verifier has one only while nobody deposits from outside, since it may
  be the verifier who does.
- `NamedIffSighted`, `EnsMirrorsRegistry`: the named flag, the counters, the owner and fuses
  of the ENS name and its records agree, whatever the owner of the parent name does.
- `CorroborationIsSigned`: only upheld reports are corroborated, with an image signed for
  that very report; a vessel's orbital record comes from such a report.
- `SightingsMatchSettlements` (wired first), `SightingsBounded` (wired at any time).
- `PoolAccounted`: what the pool holds is what it booked, per report and in total (the balance
  is not compared when the treasury is the pool itself, which gets its share unbooked).
- `SettledIsFinal` (action property): a settled report keeps every field (outcome, parties, both
  bonds, vessel, claim), except that an upheld one is corroborated once.
- `EveryReportSettles` (liveness), `ImplementsBondedClaim` (refinement).

Of the key-value store:

- `IndexedWasWritten`, `CacheWasPublished`: whatever overlaps or fails, no list names a key
  that was never written, and the cache never gets ahead of the feed.
- `OwnListIsAuthoritative`: without overlapping calls, the cache agrees with every call that
  returned in this process, in spite of lag, failures and lost answers. With the calls of earlier
  processes it agrees as long as no lookup was stale (the cache is then filled with an old
  list and written back) and no answer to an index update was lost (the cache then differs from what is
  published, and a call that returns without a write relies on it). `SingleProcessIsSafe` is
  the same without the restrictions, as the README of swarm-kv has it, and fails.
- `LiveKeysAreListed`: when nothing went wrong and the gateway has converged, readers list
  exactly the keys that have a value.

Of the verifier agent:

- `SavedIsOnChain`: at every cut, what state.json or the KV says was done on chain was done. Of
  the editions of the identity, KV soul, KV policy, state.json, soul record, policy record are
  in this order, the newest last, and the last three equal once `publish-identity` has ended.
- `SeenHasReasoning`: at every cut, a report marked as seen has a whole decision file, or one
  that was uploaded before it was torn; what the KV names was uploaded. The reference in the
  `verifier.lastDecision` record is the caller's and may be a stub: nothing is claimed of it.
- `WalletIsKept`, `PublishedDecisionIsCounted`: at every cut, torn files included.
- `OwnDisputesAreCounted`, `NothingForgotten`: as long as no tick was interrupted. A crash
  does lose candidates and disputes; that the documents promise otherwise for skipped
  reports is `SkippedIsResurfaced`.

Of the imager and the orchestrator:

- `ListedIsStored`: at every cut a listed packet is on disk, with one caller and with two, and
  whole when calls did not overlap. `ImageIsTheMetadatas`: an image is made of packets of the metadata it comes with.
- `PicksUpWhereItLeftOff`: `ImagerDownload` implements `ResumableDownload`, with the listed packets
  that exist as those kept and those between the answer and the list as fetched, for one caller and any
  interruption: no packet that is kept is asked for again. A `Plan` that leaves listed packets in `todo`
  violates it, and so does a call that begins `state.json` anew.
- `DownloadCompletes` (liveness): a caller that keeps calling gets its image.
- `AnsweredRunsAreRecorded`, `MirrorsAgree`: for histories in which runs did not overlap and
  none was killed while it saved. `EveryVesselSeenIsKept` is the promise of `state.mjs` without
  that restriction, and fails.
- `FallbackIsExplained`: in every history, a run goes under the fallback handle only if the
  chain failed it or somebody else took the name meanwhile.

Of the web application:

- `NoSilentStall`: an execution with no pipeline in flight shows an error or asks for a wrap.
- `CheckedFundsSuffice` (action property): a submission reverts on chain only while the bonds asked for are above
  those its pipeline read, or after a cancellation or a reload, or when the account spent the money elsewhere. The
  first does happen: between the reading (`:487`) and the mined transaction UMA's minimum may rise, and the hook,
  which reads no status, shows a report without an id. (`RefusalIsExplained` below answers the same question for the skill's tools.)
- `ShownIsOneSubmission`: the result shown is of one submission, the last, and of its form.
- `ReportsGetSettled` (liveness): a report gets settled or disputed, or its pipeline ended in
  an error, was reloaded, or saw its settlement revert.
- `WrapContinues`: fails.
- `ViewsCatchUp`, `FocusIsShown` (liveness): once the chain is quiet all views show it, and a
  selected vessel is found.

Of the skill library:

- `RefusalIsExplained`: a tool that is refused was short of funds (ETH to wrap, or WETH for a
  dispute, which wraps none), saw the minimum bond move, shared
  its account, came after a settlement or a dispute, or (a dispute) approved today's minimum
  for the bond of an earlier day; the wait of the publishing tool is never too short.
- `OkIsDoneOrOvertaken`: what an answer `ok` says, given that no tool reads a receipt's status. Of the publishing
  tool: the report is its own and settled, and the record it read is of this report or a later
  one. Of a dispute or an attestation: it is on the chain under the tool's own account, or the
  transaction passed its estimate and was overtaken before it was mined (the report no longer open,
  the account spent by another run, another attestation), in which case `ok` is not true of it. So the estimate of
  `writeContract` is all that stands between a dispute that cannot work and an `ok`: a variant that
  sends without it violates the property. Last, undisturbed runs leave nothing of the registry's
  allowance. (What a dispute leaves of the oracle's, today's minimum less the assertion's bond, stays.)

Of verified fetch, `VerifiedIsAuthentic`: see above.

**Bounds.** Two reports are the least for which reports can be paid out of each other's
escrow, settle out of order, concern one vessel or two, or use each other's signature;
the surplus, the counters and the records of a second sighting need no more. Two
assertion ids leave room for a foreign assertion in place of a report. Two minimum bonds
let it change between two submissions. Balances suffice for both reports and a dispute
of each, not for everything at once, so that an unfunded step is refused. Assertion ids
are interchangeable, hence the symmetry set in `registry`; `registry_late_wiring` has
liveness and uses none. `OutsideDeposits` bounds deposits by others to one per report.
`MaxReports`, `AssertionId` and the one-way oracle states make every behaviour end:
deadlock is not checked because the system may rightly stop when all reports are settled.
The protocol bond of 11 in `registry` does not divide by the 50/30/20 split, so that rounding happens.

For `kv`: two callers are the least that overlap; three keys are the least with which a list
of two overflows; `MaxUpdates` (no call begins once the index feed is that long; calls in
progress may still add to it) admits put, delete and put again, and a lookup that is one or
two updates late. Keys and callers are interchangeable. The store may be idle for ever
once the bound is reached, so deadlock is not checked. For `verifier_agent`: of two
reports one can be in hand while the other is submitted behind the cursor; with two editions
one publication can overtake another that was cut short. With both reports fake
(`MCTwoDisputes.cfg`, the same module and properties, which pass: 5 million states) one dispute follows
another, and funds for one let the second be refused. The agent may stop for good on a torn file.

For `imager`: three packets are the least for which a packet can be missing before, between
and after others; four faults let a kill, a wipe, a new fixture and a failed request meet
in one history, or the same thing happen four times. For `orchestrator`: two runs overlap or follow
each other, for one vessel or for two; one fault anywhere, since each property excludes or explains a single
one; two packets, the least of which overlapping downloads can each list another; the two
callers are interchangeable. For `submit`: two pipelines are the least of which one can be abandoned; balances of 1
(short of the bond until a wrap) and 2 (enough for one submission at a time) and bonds of 2 or 3 that move once let a
bond rise above what was read, be short until a wrap, and let an abandoned submission take what
the next one had checked. With `InitialWeth = {4}`, enough for two reports open at
once, the safety properties pass as well (6.7 million states, too many for the liveness property in the time of a run). For `skill_tools`: two publishing
runs are the least that share an account; WETH of 3 makes one run wrap and ETH of 1 lets the
second wrap fail; a bond that moves once, up or down, is the fault that matters, or a request
that fails; two moments of block time separate the window from its end.
`MCRivals.cfg` (the same module and properties, which pass: 860 thousand states) has one publishing run and two
disputers and two attestors who race for its report. For `verified_fetch`: two of each let an answer be
for another owner, another identifier or another content. For `vessel_table`: three blocks let a
mint, an update and a move of the window meet loads in flight; two loads per view are the
least that can be answered out of order. All of these may stop when their bounds are used up: deadlock is
not checked.

**Fairness** (`FairSpec`). The window closes (time passes). Voters decide a dispute: the
oracle's promise. `Settle` is weakly fair: `settleAssertion` is open to anyone, and the
web app (`useReportSubmit.ts:93-147`), the skill (`registry.js:164-186`) and
`VesselSettle.s.sol:60-105` call it. The deployer completes the set-up, which
`Deploy.s.sol:141-146` does in the deploying script. Nobody has to submit, dispute, sign or
attest, so those actions have no fairness.

`ImagerFairSpec`: the code of a call in progress runs on (weak), and whoever wants the image calls
again (strong: a call is not possible while one is in progress), as `ORBITALIMAGER_SPEC.md:217` tells
the user to. Faults are bounded, and `DownloadCompletes` assumes that the fixture is not replaced.
`SubmitFairness`: an await of the hook is answered or throws, wallet prompts included; a sent
transaction is mined; the window of a report closes. Clicks, errors and other settlers have
none. `TableFairness`: the timer of `useVessels.ts` keeps polling and the node answers or fails;
failures are bounded.

## 4. Findings

Two places, each with a listed run in which TLC exhibits it.

1. `agent/SKILL.md:169-171` lets the agent skip a report whose metadata cannot be fetched,
   because `poll-uma` will surface it again. It does not: the cursor moves to the head when
   the candidates are listed (`poll-uma.mjs:94`; `SkippedIsResurfaced`). The same holds for
   the rest of a tick that stops on a failed tool.
2. `continueAfterWrap` is memoised without dependencies (`useReportSubmit.ts:241`), so after a wrap
   the submission runs with the photo of the first render, which is none, and throws
   (`WrapContinues`), where the comments at `:231` and `:240` say it continues from step 3.

Known limits that the further configurations of section 3 exhibit:

- A protocol bond of 1 to 3 token units passes the constructor but its pool share rounds
  to zero, `depositSlash` refuses zero (`SlashPool.sol:27`), and a false report can never
  be settled. `PoolShareVanishes` proves that these are exactly the bonds concerned.
- The loser's counter-bond does not compensate the reporter (`DESIGN_DOCUMENT.md:211`,
  `:312`): the refund is `bond + umaBond` (`ReportRegistry.sol:297`), the rest stays with the
  registry, which has no function to pay it out; `BalancesExplained` says how much.
- `LIGHTHOUSE_SPEC.md:291` rules out collisions of vessel names; after a redeployment under
  the same parent, names sealed by the previous Lighthouse cannot be minted again.
- `swarm-kv/README.md:95`: "A single owner writing from a single process is safe." Two puts
  that are not awaited one after the other read the same cached list (`index.js:272-278`), and a
  restarted process takes its list from a gateway that may lag (`index.js:253-258`).
- `state.mjs:1-3`: "Keeps a JSON snapshot of every vessel and verifier seen". Two runs that
  overlap both load the file before either saves it (`pipeline.mjs:130`), and the later save
  drops the other's vessel.
- `disputeReport` does not look at the receipt's status (`registry.js:221`), where
  `dispute.mjs:46-48` means to fail.
- `ReportModal.tsx:102`: the modal is locked "to wait for tx to settle"; after an error past
  step 4 nothing unlocks it but a reload (`:247-258`).
- `chain.ts:4` speaks of every vessel "ever minted"; without `NEXT_PUBLIC_DEPLOY_BLOCK` only the
  last `MAX_SCAN_RANGE` blocks are scanned (`chain.ts:91-93`).

## 5. Proofs

`ReportRegistryProofs`: for any number of reports, assertion ids, reporters, verifiers, vessels, metadata and
images, any non-zero protocol bond, any set of non-zero minimum bonds and any oracle fee
not above the bond. Assumptions: `OracleAssumption`, `LighthouseAssumption` and
`RegistryAssumption`, which say that the named parties are accounts, that the contracts
are neither reporters nor verifiers, and that sentinels differ from values; TLC evaluates
them on every run.

- **Arithmetic.** `SplitIsExact`: the shares are natural numbers and add up to the bond.
- **The inductive invariant** `Core` is `TypeOK`, `OneAssertionPerReport`,
  `StatusAgreesWithOracle` and `WellFormed`. None of the first three is inductive alone:
  that a callback finds a report in the right status needs the bijection; the bijection
  needs that unused assertion ids carry no report and unused slots are blank; that balances
  stay natural needs the bonds recorded with report and assertion to agree.
  `NextCore` has one lemma per transaction; `ClosedTogether` serves both outcomes of a
  settlement. `Correspondence` is `Spec => []Core`; `TypeCorrect`, `StatusAgreement` and
  `AssertionCorrespondence` are its parts.
- **Money.** One lemma per transaction says what it does to the registry's balance:
  plus one protocol bond for a submission, minus exactly one for a slashed or an undisputed
  report, minus at most one for a report upheld after a dispute, nothing otherwise.
- **Shape of a step** (`StepShape`): every step opens, contests, closes or corroborates one
  report, or leaves all of them alone. From it `RegistryIsSolvent` (by the cardinality of
  the set of open reports), `SettledForGood`, and `RegistryImplementsBondedClaim` with the
  refinement mapping of `ReportRegistry` (the stage of each report, and the registry's
  balance as escrow).

- **Names and records.** From the same `Core` and the shape of a step: names follow
  sightings, records mirror the registry and corroborations are signed. What a
  name's records say needs that the report they came from is still upheld
  (`SettledForGood`), and that a vessel's counters and its name change together.

`ReportRegistryAccounts`: the same, with one assumption more (a conjunct of `RegistryAssumption`): the
pool is not the oracle, nor the account outside deposits come from.
- **Totals.** The library's induction theorems are out of the provers' reach, so a total is not a fold: `Total(f, S)`
  is the number of pairs of an `x` of `S` and a number from 1 to `f[x]`. `TotalAdds`, `TotalRemoves` and
  `TotalChanges` follow from the cardinality of unions, and are all the proofs need of sums.
- **Sightings.** `UpheldStep` says which set of upheld reports a step makes larger, and by what;
  `SightingsAreUpheldReports` and `SightingsNeverExceed` follow, the first from the number
  of upheld reports, the second because a set does not lose members.
- **Money.** `Accounts` is the inductive invariant: `BalancesExplained`, `PoolAccounted`, and `Books`: only
  finitely many assertions were ever opened, and nobody disputes or settles one that is not the registry's. One lemma per transaction (`SubmitPays`,
  `DisputePays`, `TruthfulPays`, `FalsePays`, ...) says what every account gains or loses, however
  many parts of a payment go to the same account; one per party (`StepReporter`, `StepVerifier`,
  `StepTreasury`, `StepRegistry`, `StepPool`) says what happens to its reports or
  assertions, and that the two agree. `QuietSteps` serves the transactions that move no money.

`SwarmProofs`, of `SwarmKV`: for any keys, values, number of overlapping calls, payload limit and gateway
lag, from `KVAssumption` (sentinels differ from values). `TypeOK`, `IndexedWasWritten` and
`CacheWasPublished` are not inductive: that a list to be written names only written keys
needs that a `put` past its first stage has written its value (`WroteFirst`); that the cache
was published needs that what a call has downloaded, or has had accepted, is an update of
the index feed (`KeysPublished`); that a published list fits needs what `_writeIndex` has
checked of a list on its way (`CallFits`). `KVCore` is their conjunction. `OneCall` does the work
common to all steps (a step changes one call and appends to the index at most what that
call has sent), and there is one lemma per action on top. `KVInvariant` is
`Spec => []KVCore`; `KVTypeCorrect`, `ListedKeysWereWritten` and `CacheIsNeverAhead` follow.
`KVOwn` is the second invariant: while calls have not overlapped at most one is busy, it publishes the
cached list with its own key added or removed (`UsesCache`), and, while nothing went wrong, the published list and the live
keys differ by that key at most (`Smooth`). `KVKept` is the third, about the calls of earlier processes: while
calls have not overlapped, no lookup was stale and no answer to an index update was lost, the latest list agrees with all
calls that returned, and the cache is that list but between an index update and its answer. From
these `OwnListAgrees` and `ReadersSeeLiveKeys`.

`SwarmProofs`, of `VerifiedFetch`: for any owners, identifiers and contents. `VerifiedIsAuthentic` is
inductive with the types; the work is in `RecoveredSigned`: a chunk that recovers to a key is
one its holder signed.

`VerifierAgentProofs`: for any reports, bonds and rivals, from `AgentAssumption`. `AgentInv` adds to the properties
what a tool under way relies on (`UnderWay`: the report it holds, the edition it pinned, the files it found readable, what
its earlier steps had mined, uploaded or written), the order of the editions while
`publish-identity` runs and after it was cut short (`Identity`), that a report in hand is not listed yet, so that no
decision file of a listed report is written anew (`Reasoning`), that the list never outgrows the counter and the published counter never
exceeds it (`Counters`), and that an own dispute is counted or about to be (`OwnDisputes`). `ToolMoves` serves every step
that only moves the tool; each other step has a lemma. `SavedWasDone`, `ReasoningIsKept`,
`PublishedIsCounted`, `DisputesAreCounted`, `NothingIsForgotten` and `WalletIsNeverLost` follow. The assumption
that a torn file differs from every readable state (`Torn \notin StateFiles`) is what makes
"readable" mean something.

`ReportSubmitProofs`: for any number of pipelines, any balances and any bonds, moving at any time, from `SubmitAssumption`. `SubmitInv`
adds to the properties what holds unless something was abandoned (`Orderly`): a submission in flight or waiting to be
mined has the modal for itself (`OneAtATime`), what it has checked of balance and allowance against the bonds it read is still
there unless spent elsewhere (`FundsThere`), and the result filled so far is its own (`ResultFollows`). What holds always
is that wraps never submit, that pipelines start in order and that transactions agree with claims.
`PipelineMoves` serves every step of a pipeline that submits nothing, `ChainMoves` every step of the chain,
`Composes` and `Begins` the clicks. That only a mined submission reverts (`OnlyMiningReverts`) and `FundsThere` give
the action property. `StallsAreShown`, `FundsSuffice` and `OneSubmissionShown` follow.

`ImagerDownloadProofs`: for any number of callers, packets, fixtures and failures, from `ImagerCounts`
and `ImagerSentinels`. `ImagerInv` has five parts: types; `WritersPut`, that a call has one file open while it puts
its bytes, one of its target; `WellFormed`, what it has in memory at each cut; `ListedExists`, that whatever
is listed on disk, in a temporary file or in memory exists, unless the user removed it, which is inductive
even while calls overlap; and `CallsAlone`, which holds until they do. Its core is `Sound`: at each cut, how
the list in memory stands to the list on disk, and whose bytes the temporary file holds. Neither
`ListedIsStored` nor the refinement is inductive without it: what a rename publishes was decided
two file operations earlier. `CallMoves` serves the steps in memory, `CallWrites` those on a file that is
open, and `StepRenameTmp` has a case for each target. `ListedStays`, `ImageIsOfItsMetadata` and
`ImagerTypeCorrect` follow. `Resumes` is the refinement, under the hypothesis `[]~overlapped`: `PacketMoves`
says what a step may do to the packets, and each action is shown to do that: with `AsksForMissing` an answer
brings a packet that is not kept, with `RenameKeeps` a rename keeps at most the one fetched and loses none,
with `Wastes` a call that ends wastes it, with `ComposesAll` an image is composed when all are kept.
Without the hypothesis it fails, which is what `MCSharedSession.cfg` shows.

`OrchestratorProofs`: for any number of callers, vessels, packets, runs and failures, from `OrchestratorAssumption`, the
imager's two and `LedgerSentinels` (a missing or torn file differs from ledgers). Steps of the
download leave the pipeline's variables alone (`InvariantElsewhere`). `OrchestratorInvariant` has six parts: types;
`RunsAreCounted`, that no ledger-relevant number exceeds the runs begun; `SaversPut`, that a run has open the one
file it is putting; `OneAtATime`; `FallbackKnown`, that a run which knows its handle to be the fallback had a cause by
then, and that the name was free when it went to mint unless a cause was there; and, until runs overlap or one
is killed while it saves, `Saved`. The properties speak of what is answered and of what holds between runs; what they need is
`Saves`: at each cut of a run, which of the three files already hold what it has in memory, and that this names the run and is up
to date with all the answers and with the decision on chain. `AnsweredRunsAreInTheState`, `LedgersAgreeBetweenRuns` and
`FallbackHasAReason` follow.

The module also carries the results about the session directory over to the runs. `Spec` does not implement
`ImagerSpec`: a kill of a run that is past its download counts as a fault, which is no step of the imager. `RunsAreCallers`
says that every other step is one of a caller or touches nothing of the imager's, so `ImagerInv` is inductive here too, by the
step lemmas of `ImagerDownloadProofs`. With it goes `RunsDownload`: no run removes packets, a process is busy downloading only in a run
at that stage, and hence downloads overlap only when runs do. `RunsListWhatIsStored` and
`OrchestratorTypeCorrect` follow, and `RunsInTurnDownloadWhole`: while one run follows another, every listed packet is there and of the
fixture `state.json` describes, and every image handed over is whole, wherever runs were killed.

`SkillRegistryProofs`: for any number of tools of each kind, accounts, bonds and reports, from `SkillAssumption` and
`ClockAssumption`. `SkillInvariant` says of every run where it may be and what it knows of its report (`Placed`,
`Timely`), the parts of the two properties (`Done`, `Explained`), and, of a run not marked in `shared`, that what it has read
of the bond, wrapped and approved is still there (`Funded`); besides, runs that spend from one account
are marked (`Sharing`), upheld reports are in the log, and an account whose runs are all through undisturbed has no approval left
(`NothingApproved`). The argument is in four lemmas. `Progress` is what every step does: time
passes, a report leaves PENDING for good, what can be settled stays so or is over, the log grows. `Carried`: under
progress, whatever is known of a run that does not move stays known. `FundedKept`: so does what it counts on, when nobody
else pays from its account and the bond is as it read it. `StepOfOne`: of a run's step, only its own record needs
an argument. On top there is one lemma per action. `RaceInvariant` adds what `OkIsDoneOrOvertaken` needs: a transaction that is
out would still go through or its run is in `overtaken` (`Outstanding`), who answered ok has acted or is
(`Acted`), and an open report has no disputer, so that a mark once set stays (`MarksStay`).

Only model-checked: liveness (`EveryReportSettles`, `DownloadCompletes`, `ReportsGetSettled`,
`ViewsCatchUp`, `FocusIsShown`), which is beyond the prover, and so everything the run of `VesselTable`
checks. Every
other invariant and action property of the passing runs is a theorem.

## 6. Plan

Every component of section 1 but the stubs has a module, and every safety property of the passing runs a theorem. What is worth
doing next, in this order:

1. Safety of `VesselTable`: rows that are shown were on chain, part by part, whatever loads overlap; and what a load that
   began last may still lack.
2. Composition of `VerifierAgent` with `SwarmKV`: `publish-stats` as a sequence of puts, whose
   list a reader may see half way.

## 7. Not modelled

- Views, events, claim text, ABI and address tables, command-line parsing: no protocol state.
- `readVessel`, `readVerifier` and the name helpers of `skill/src/lighthouse.js`: reads of the chain.
- The upload to Swarm in the orchestrator, a stub in the code; an explicit `verifierHandle`.
- `fetchImagery` and `--no-verify` of the imager, and the Python twin of its client, which
  follows the same steps.
- Dossiers, the globe, styles and static data of the web application: drawing.
- The process and the file system are taken to survive a kill of a process; power loss is not modelled.
- `minter` and `suggester` are stubs, and the `orbitport` submodule is empty.
