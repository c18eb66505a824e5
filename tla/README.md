# AdaptiveHire: TLA+ models

AdaptiveHire is an exam platform: recruiters of a company invite candidates to an
adaptive assessment, candidates sit it in the browser under observation, a queue
closes what they abandon, and a report reaches the recruiter, who decides. The
backend (NestJS over Postgres, Redis and BullMQ) is one Node process that goes to
sleep when idle; the frontend is a React application. Almost no handler takes a
lock or opens a transaction: each is a chain of awaited queries, and what keeps the
data right is the order of the queries, the unique indexes and the foreign keys.
Almost no page is told when its copy is stale. That is what these models are about.

Backend paths are relative to `src/backend/src/`, frontend paths (`.tsx`, and what is
in `hooks/` and `lib/`) to `src/frontend/src/`.

1. [The system](#1-the-system)
2. [The modules](#2-the-modules)
3. [What is checked](#3-what-is-checked)
4. [Where the code and its comments part](#4-where-the-code-and-its-comments-part)
5. [What is proved](#5-what-is-proved)
6. [Not modelled](#6-not-modelled)
7. [What is left](#7-what-is-left)

## 1. The system

| Component | State it keeps | Operations | Hard behaviour | Modules |
|---|---|---|---|---|
| Session runtime (`sessions/sessions.service.ts`) | the `assessment_sessions` row, `responses`, `session_module_results`; a live JSON state in Redis | start, resume, current step, begin a section, submit, finalise, rebuild from the database | requests copy the live state, await, write it back; tabs, worker and sweep overlap; the live state can vanish | SessionRuntime, AttemptLedger |
| Auto-submit queue (`queues/auto-submit`) | one delayed job per session id | add, remove, fire, retry | `add` keeps an existing job, `remove` is refused while active, both failures are swallowed | SessionRuntime |
| Sweep (`sessions/expired-session-sweeper.service.ts`) | nothing | one sweep per boot, 50 rows | races requests and the worker; a batch can be filled by rows it cannot close | SessionRuntime, OverdueSweep |
| Invitations (`invitations`) | `invitations` | invite, remove, reschedule, revoke, link | find-then-insert, find-then-save, a link two requests race for | Admission, Entrance |
| Public entry and link (`public-entry`, `assessments/public-link*`) | the link's columns of an assessment | enter, undo, mint, rotate, switch, revoke | count-then-insert cap; an undo that deletes what another request uses; stale saves | Admission, Entrance |
| Members (`users`, `organisations`) | `users` | provision, create, delete, roles | count-then-delete across companies; the last-owner check | Admission, Workspace |
| Sign-in (`auth`, `lib/auth.tsx`, `lib/api.ts`) | token columns of `users`, reset links | login, refresh, logout, reset, change | refreshes from stale reads, lost and reordered responses | SignIn |
| Readiness wizard (`ReadinessCheck.tsx`) | one effect per visit of a step | open devices, measure, Continue | devices and measurements that arrive after their visit | ReadinessCheck |
| Test screen (`TakeAssessment.tsx`, `hooks/useSession.ts`) | the step on screen | load, begin, answer, refresh | unordered replies, calls repeated | ProctoringPage |
| Proctoring (`hooks/useProctoring.ts`, `lib/socket.ts`, `proctoring`) | listeners, camera, counters; `proctoring_logs` | depart, return, exit full screen, face loop, emit, record | three events for one departure; a socket that drops | ProctoringPage, FaceMonitor, SignalChannel |
| Question bank and pools (`question-bank`, `assessments`) | `questions`, `assessment_questions` | author, edit, fork, delete, curate | two companies on one shared bank, edits under an attempt | QuestionPool |
| Adaptive engine (`adaptive-engine`) | counts in the live state | next question, probes, scores | which question may follow, after which; what a rebuild restores | ProbePairs, TraitSelection, TraitScoring |
| Reports (`reports/reports.service.ts`, `queues/report-generation`) | `reports` | generate, notify, regenerate, summary | at-least-once job, overlapping generations | ReportJobs |
| Conclusions (`reports/report-builder.ts`, `behavioral-profiles.ts`) | none | sections, composites, recommendation | scores of what was never measured | Verdict, Rounding |
| Review desk (`reports/reports.service.ts`, `AssessmentReports.tsx`) | `candidate_reviews`, the message log | decide, annotate, send, write | stale whole-row saves, check-then-send | ReviewDesk |
| E-mail (`queues/invite-emails`, `mail/zoho-api.transport.ts`) | jobs, a cached token | enqueue, post, refresh, retry | at-least-once delivery; joining a refresh whose token was refused | MailDelivery |

How they meet:

- `start` reads the invitation and the round's window, inserts the session, and
  writes the invitation's status; `finalize` writes it again, removes the job and
  queues the report. The report's job reads the session and its results, writes one
  report row and queues a notice; the notice, the invitations and the rejections
  leave by the same e-mail queue.
- Invitations, entries, deletions and sign-in share `users`; companies share
  nothing else except the platform's questions.
- The test screen only sees the runtime's replies, the proctoring gateway only the
  session row, the wizard neither.

What makes each part correct:

- *Runtime*: a closed attempt can be reported on and is never reopened; no state
  counts an answer that was not stored; nobody is moved past a question; sections
  keep their length and order; the deadline stands; every open attempt closes,
  whoever stops calling or crashes.
- *Admission and entrance*: every invitation is held by the account of its address;
  no company's action erases another's records; the cap means something; page, link
  and runtime agree on when somebody may sit; what was retired stays retired.
- *Accounts*: an honest browser keeps its session, an ended one is over; a reset link
  works once; a workspace keeps an owner.
- *Pages*: one departure is one event; a section is watched by a camera; a face signal
  is earned; no pass of the wizard rests on another visit; no device is left on.
- *Questions and scores*: twins stay apart and opened pairs close; traits take turns;
  one version of a question each; a stored answer keeps its question; random answers
  earn the middle of the scale; a report concludes no more than was answered.
- *Outcome*: a report is whole and announced when it is there; what a candidate is told
  is on record and told once; an e-mail is sent exactly if it was taken.

The hazards behind these are listed line by line in `PROJECT.json`.

## 2. The modules

```
AttemptLedger <= refinement = SessionRuntime                       EXTENDS, top to bottom
     |                             |
     | (the attempt of)      SessionSafety -- SessionRuntime_proofs
     |                         /        \                       \
ReportJobs          SessionLiveness   OneTabSession ------ OneTab_proofs
                           |               |
                     SessionClaims         |
                           |               |
OverdueSweep           MCSession ------ MCOneTab
        \______ MCSwept ___/

Admission -- AdmissionSafety -- Admission_proofs
              |      \           /
              |  MCAdmission -- Entrance
MCAccounts ---+--- SignIn, Workspace -- Accounts_proofs

ReviewDesk  ProctoringPage  FaceMonitor  MailDelivery        -> MCPages
ReportJobs  SignalChannel  ReadinessCheck  TraitScoring  Verdict (Rounding) -> MCEvidence
ProbePairs  QuestionPool  TraitSelection                      -> MCQuestions
```

Modules that interact are composed: `SessionRuntime` holds runtime, queue, sweep and
Redis together; `ReportJobs` runs on an instance of `AttemptLedger`, the abstract
attempt that `SessionRuntime` is shown to implement; `Admission` holds invitations,
entries and accounts. Parts that share no changing state are only put in one run, to
be explored one at a time: an MC module that bundles them has a variable `part`,
chosen once, and every step of a part leaves the others at rest. Nothing is lost by
it, because no variable of one part is read by another.

Everywhere, one action is the code between two awaited calls to a store others can
see: a read and what is computed from it are one action, the next write another. A
call that rejects, a crash and a request that is never answered are actions of their
own.

### SessionRuntime: one attempt

A *process* is a request of a tab, the auto-submit worker or the sweep. It has a
program counter `pc`, the entry point it serves (`op`), the working copy of the live
state (`st`) and the handler's locals (`ask`, `out`, `cur`).

| Variables | Code |
|---|---|
| `invitation`, `row`, `responses`, `results` | the invitation's status; `assessment_sessions`; `responses`; `session_module_results`, "closed" when `completedAt` is set |
| `blob` | the `SessionState` under `session:{id}`, "absent" without a key |
| `job`, `reportQueued` | the auto-submit job; whether a report job was added |
| `now` | the clock, in ticks |
| `shown`, `lost` | history: questions ever put on screen; whether Redis ever lost the state |

`StartCheck … CreateJob` are `start` and `createSession`; `Load … ReplaySave` are
`load`, `resume` and `rehydrate`; `Begin … BeginSave` are `startCurrentModule` and
`beginSessionClock`; `Submit … SubmitSave` are `submitAnswer` and `applyAnswer`;
`Advance* … CloseResult` are `advance` and `completeModule`; `Finalise*` is
`finalize`; `JobFires`, `Sweep` and `AutoRow` are the worker, the sweep and
`autoSubmitSession`. `Swallow` is a queue call whose rejection the code catches,
`Reject` any other awaited call that rejects, `Restart` a crash or a sleep, `Evict`
and `Lapse` the two ways Redis loses the state. Of a question its section is kept, of
an answer its row, of a result row its count; which eligible question the engine picks
is open here and the subject of `ProbePairs` and `TraitSelection`.

`OneTabSession` adds what the runtime promises a candidate with one tab, and the history
these promises need: `overtaken`, whether the worker or the sweep was ever at work while a
request was opening the attempt (`createSession` after its insert, or the first Begin).

`OverdueSweep` is the same sweep seen from many attempts: which rows a batch takes,
what becomes of those it closes, finds finished in Redis, or trips over.

### Admission and Entrance: how a candidate comes to a round

`Admission`: a *request* is a slot of the server with `pc`, the operation, the
assessment and address it names, and what it has read. `users`, `invitations` and
`attempts` are the tables; ids are never reused, so a stale copy of a deleted row is
told from its successor.

| Operation | Actions | Code |
|---|---|---|
| invite | `InviteFind` `InviteCheck` `InviteInsert` `ProvisionFind` `ProvisionCreate` `Link` | `inviteOne`, `provisionCandidateForInvite`, `linkUserToInvitations` |
| register | `RegisterFind` `RegisterGate` `RegisterCreate` `Link` | `AuthService.register` |
| enter | `EnterOpen` `EnterFind` `Login` `SelfFind` `SelfInsert`, register's steps, `IssueTokens` `Discard` `Answer` | `enter`, `createSelfRegistered`, `discardSelfRegistered` |
| remove | `RemoveFind` `RemoveCheck` `RemoveDelete` `UnusedFind` `UnusedCount` `UnusedDelete` | `remove`, `deleteProvisionedIfUnused` |
| reschedule, revoke | `RescheduleFind` `RescheduleSave`, `RevokeFind` `RevokeUpdate` | `reschedule`, `revoke` |
| delete a person | `PersonFind` `PersonCount` `PersonCommit` `PersonErase` | `deletePerson` |
| create by hand | `AdminFind` `AdminCreate` | `createByAdmin` |

The database's part is `Referable` (a foreign key refuses an id that is gone), `Free`
(the unique index), `DeleteUser` (ON DELETE CASCADE) and `Deletable` (ON DELETE
RESTRICT). `disturbed` is history: the addresses two of whose requests overlapped, or
one of whose requests was cut short.

`Entrance`: the dates and the public link of one round (`round`), each candidate's
invitation (`invite`), attempt and page, and recruiters' requests that read a row and
save it whole (`ReadRound` then `SaveRound`; `DatesFind` then `DatesSave`; …).
`Advance` is the clock; `EffectiveWindow`, `IsOpen`, `LinkIsOpen`, `Bar` and `Asking`
are the three places that decide who may sit, each with its own comparisons. Tokens
are numbers in the order of minting.

### SignIn and Workspace: accounts

`SignIn`: the token columns of one user (`account`: the current hash and the recently
superseded ones), its browsers' cookies, its reset links, and the responses that are
under way, delivered in any order or never (`Deliver`). `LogIn`/`StartChain`,
`Refresh`/`Rotate`/`Revoke`, `Logout`, `Mint`/`Expire`,
`ResetFind`/`ResetClaim`/`ResetBurn`/`ResetPassword`/`ResetClear` and
`ChangeFind`/`ChangeUpdate` are the handlers' awaited calls. `raced` is history: a row
was written from a copy that was stale.

`Workspace`: the role of every member and recruiters' requests that are admitted by
the role their actor has then, read one row at a time and write
(`FindTarget` `FindActor` `CountOwners` `SaveRole`; `DeleteFind` `DeleteColleague`;
`CreateFind` `CreateColleague`). `crossed`: two requests overlapped. `deposed`: an
owner's account was deleted.

### The pages

`ProctoringPage`: the step on screen and the calls in flight (`Sends`, `Serve`,
`Reply`, `Fail`, `Expire`, `Answer`; `PressBegin` up to the wait for full screen and `Begin`
after it), with the hook's camera, full-screen and
window watch (`Depart`, `OnBlur`, `GraceElapses`, `OnHidden`, `OnReturn`, `OnExit`, …)
as the browser may call them, in any order. `tangled` is history: an older reply
replaced a newer one, or Begin was pressed while another call was in flight.

`FaceMonitor`: the interval loop that turns a stream of verdicts into signals and
notices: `Tick` starts one detection, `Read` applies its verdict to `runs`,
`codeRuns` and the notice. `SignalChannel`: what was emitted, through a socket that
connects, drops and gives up, to the log. `ReadinessCheck`: the five steps of the
wizard; a visit owns its devices, its frames in flight and the right to publish a
verdict, and ends with Continue, Back, Check again or leaving.

`ReviewDesk`: recruiters' pages with a copy of one review each, at most one request per
page and kind of call (`Lanes`), the review row, its stamp, the message log and the
e-mails queued. A request reads the row (`SaveFind`, `SendFind`) and writes all of it
(`SaveWrite`, `Stamp`, `Unstamp`). `MailDelivery`: the e-mail jobs, one delivery each,
the transport's cached token and the one refresh its sends share.

### Questions, scores and reports

`ProbePairs`: one section with a repeat probe: which twins may be served (`Base`,
`Blocked`, `Due`, `WantsNewPair`), what an answer records, and the rebuild. 
`TraitSelection`: the counts by trait and pattern, the choice `SelectTraitId` makes
from them, and for each question put what the bank held for that turn (`RowOf`). `QuestionPool`: rows of the shared bank, what each company sees, edits that
fork or overwrite, the curated pool and one attempt that draws on it: by an id first (`Draw`), whose row it
then reads (`ReadDrawn`).

`TraitScoring`: exact integer sums of what each answer says of each trait, the scale
those sums are put on, and the replay of stored answers after an edit. Questions have two
to six options, as the bank accepts, and a weight of one counts 3600, by which every
average the code takes of them is a whole number.
`Verdict`: `BuildReport` over the result rows: sections, composites, bands, coverage,
the recommendation and the findings. Both are pure functions of the code, explored
over small inputs by a state that accumulates answers or sections.

`ReportJobs`: finalisers (a request, the job, the sweep), of which one closes the attempt
(`AttemptLedger`) and any may come after with a copy that is not finished; each goes on to
queue the job, which is a no-op while one of its id is on file. Then the worker with its
three attempts and stalls, and recruiters' pages that open or regenerate the report. A generation is `LoadSession` `LoadResults` `Upsert` `Notify`
`Reread`.

## 3. What is checked

Eight runs pass and four end in a violation (section 4). Deadlock checking is off in
all of them: the system may really stop (a candidate need never call again, a
recruiter need never invite), and the bounds end every behaviour.

| Run | Instance | Distinct states | Shows |
|---|---|---|---|
| `session_two_tabs` | 2 tabs, worker, 1 section of 1 answer from 2 questions, 3 instants | 1.8 M | counts are backed by rows, an open attempt at rest is watched by its job, the record implements `AttemptLedger` |
| `session_one_tab` | 1 tab, 2 sections, 3 questions, 5 instants, the first Begin at any of them, 1 loss of the state, a revocation | 4.2 M | until an opening is overtaken: nothing is skipped, sections keep length and order, a rebuild finds what was lost, the invitation follows, the deadline is fixed |
| `session_swept` | 1 tab that vanishes, any one failure or crash, sleeps, TTLs; and 3 overdue attempts, batches of 2, 1 stop | 52 k | every open attempt closes; the sweeps reach all that can be closed |
| `admission` | 2 companies, 1 address, 5 requests of 8 kinds, 2 in flight, 1 cut short; and 1 candidate, 3 instants, 2 recruiters' requests, 1 more token | 2.6 M | undisturbed addresses stay whole, nothing dangles, companies keep their records; pages agree, retractions hold |
| `accounts` | 2 requests in flight of 4, 1 browser, 2 links, 3 ticks, grace 1, 2 recent tokens, 1 refusal; 3 members, 5 requests; 3 addresses, cap 1, 6 entries | 1.1 M | links work once, unused tokens are honoured, sessions end; a workspace is held; the cap is exceeded by the other requests in flight at most |
| `pages` | 2 recruiters' pages, 4 calls, 1 failure, 1 crash; 3 sections, 2 calls in flight; 2 sustained frames; 2 e-mails, 2 attempts, 1 restart | 2.1 M | told once and on record; the watch follows the page; face signals are earned; e-mail is accounted |
| `evidence` | 2 sections, 2 finalisers with 2 calls, 1 reader, 1 read, 3 failures, 1 crash; 2 signals, 2 drops; 6 visits; 2 answers over 5 versions; 3 sections over 8 measures | 0.3 M | reports are whole, announced, come about; signals land; steps keep to themselves and pass who does as asked; scores and verdicts mean what they say |
| `questions` | 8 questions in 2 pairs, 6 served, 1 eviction, 2 archived; 3 recruiters, 2 companies, 3 calls; 5 cards, 2 traits, 2 patterns, 1 rebuild | 0.6 M | pairs are sound; one version each, answers keep their question, companies keep theirs, curated pools suffice; the paper is even-handed |

**Why the bounds are enough.** A race in a chain of reads and writes needs two
requests with copies; a third is there only where the code gives it a part (the worker
and the sweep are processes of every session run). One section with a question to
spare is the least that can be overrun or skipped, two are the least with an order,
three the least in which a call for one section can reach past the next. Time is in
units of one section, one grace or one bound, so that each deadline falls before, at
and after every step. Failures are single where a property is about what one failed
step leaves behind, and several where retries count them. Two companies and one
address are the least that can erase each other's records; the cap needs as many
addresses as two entrants beyond it and one who is removed and put back. A pair of
twins needs a gap, a second pair to compete for it, and a group without a twin; two
sustained frames are the least that can be interrupted. What no small instance settles
is proved for all of them (section 5).

**Guards against vacuity.** Every property has at least one *mutant* in
`PROJECT.json`: a definition that translates code, changed the way a plausible bug
would change it, under which the property's own run fails. Histories that excuse a
property (`disturbed`, `undisturbed`, `crossed`, `raced`, `tangled`, `overlapped`, `early`, `lost`,
`overtaken`)
are not assumptions on the environment: the runs contain the excused behaviours, and
section 4 says what they look like. (`session_one_tab` goes no further than the state in
which an opening was overtaken, which has nothing left to check: its constraint
`NotOvertaken`.)

**Fairness.** Nothing is assumed of a candidate or a recruiter beyond what a property
says of them.

| Formula | Says | Because |
|---|---|---|
| `StepFairness` (session) | an awaited call returns and its caller goes on | Node resumes it; drivers time out |
| `TimerFairness` | time passes and a due job is delivered; strong, since a busy tab interrupts | the clock and Redis do not forget |
| `WakeFairness` | the idle instance boots again and again, each boot sweeps, TTLs run out | the keep-alive ping `expired-session-sweeper.service.ts` relies on |
| `Fairness` (ReportJobs) | the close goes on to queue the job, the worker takes it, generations and rendering go on | BullMQ, Node and the browser |
| `ChannelFairness` | a connection attempt ends, received signals are handled | socket.io, Node |
| `ReadinessFairness` | frames are read, levels polled, opened devices and pings answer | the browser's timers and promises |
| `SweepFairness` | boots come, a sweep goes through its rows, Redis expires finished states | as `WakeFairness` |

## 4. Where the code and its comments part

Four runs end in a violation, each of a sentence the repository states:

- `claim_outcome`: `finalize` is not a no-op for "whichever lands second"
  (`sessions.service.ts:616`): it tests its caller's copy, and the second outcome
  overwrites the first.
- `claim_last_owner`: `deletePerson` deletes the only owner, although "a workspace with
  no owner is one nobody can ever hand over" (`users.service.ts:144`).
- `claim_keeps_session`: `start` tests the window before it looks for the attempt under
  way, so a reload after the closing date ends the session that "keeps their session"
  promises (`sessions.service.ts:147`).
- `claim_fork_in_pool`: the fork of a question that stands in a pool is not in the
  pool, and the original is hidden by it: neither is served
  (`question.entity.ts:116`).

The models contain further behaviours a maintainer will want to know. Where a property
excludes one, it is named in brackets.

*Session.* A retry of the auto-submit job finds the state finished by the attempt that
failed and leaves the row open until the sweep. Two tabs can skip a question. A slow
`createSession` overwrites a revocation. After a loss of the live state the section clocks
start again (`~lost`). A revocation between `start`'s check and its insert is overwritten
by the insert's status. A rebuild by the worker beside a last answer saves a state without
it; if that request and the worker then fail, the section is begun anew and takes more
answers than its length (`faults = 0`). Begin tests neither the deadline nor the status
(`sessions.service.ts:325`). As a rule nothing comes of it: a first Begin past the
placeholder deadline replaces the deadline before anybody looks. One that the worker or
the sweep overtakes moves the deadline of an attempt that is being closed, and can save an
open state over the finished one, after which sections no longer keep their length or
order (`~overtaken`; without it TLC finds `SectionsHold` and `DeadlineIsFixed` violated).

*Admission.* Two invitations of one new address at once leave the second unlinked;
a form submitted twice discards the row that was given out; `deletePerson` counts other
companies' invitations before it deletes, and cascades away one inserted in between
(`disturbed`). A revoked address that comes back by the link is let in and then refused
by `start`.

*Entrance.* Every recruiter's save writes the whole row: a stale `update` or
`setCompany` undoes a rotation or a revocation of the link (`crossed`). The bar says
"stopped" of a revoked attempt that was then submitted. The candidate's list matches
invitations by id or address where `start` wants the id.

*Accounts.* Overlapping refreshes from stale reads drop a token that was issued
(`users.service.ts:640`), and a refresh or sign-in that began before a sign-out or a
reset revives the session after it (`raced`); a second device's sign-in replaces the
first's. Two owners who demote each other leave none (`crossed`); without an owner the
admins can step down too; a stale save takes back a role just granted.

*Test screen.* `POST /sessions/:id/module/start` names no section
(`sessions.service.ts:318`), and `useSession`'s "one in-flight call at a time"
(`useSession.ts:65`) is not kept, because the clock's refresh runs whatever is in flight,
and Begin can be pressed again while the browser goes full screen, before `busy` is set
(`TakeAssessment.tsx:138`): a start that comes late or twice begins the next section with
nobody on its intro. Replies are applied as they arrive, and an older one brings back a
screen the attempt has left (both: `tangled`). A reply in between may mark an exit from
full screen as the page's own. A failed start is not retried. Where camera permission is
not granted beforehand, the intro shows no control that asks for it
(`useProctoring.ts:696`, `TakeAssessment.tsx:281`). `awayCount` runs on from section to
section; `visible` without focus re-arms the latch. A stream whose video fails to play is
never stopped, and one that opens after the page was left is stopped by nobody (`late`).
`startMicrophone` has no caller. A socket keeps the token it was made with. One read
without a verdict after a badly framed one is recorded as `face_absent`
(`useProctoring.ts:27`).

*Wizard.* The timer of the connection check is started after an await and outlives its
step (`ReadinessCheck.tsx:409`, against the comment at 201). Unplugging a second display
and granting a refused device are not noticed, though the page says it updates by
itself.

*Questions.* Two first edits of one shipped question make two forks. A stale save
un-archives a question, or brings a deleted one back without its details. A question
deleted while on screen answers 404 until the auto-submit. One deleted between the query
for its id and the read of its row (`question-selector.service.ts:59`) ends the section as
if the bank had run dry (`undisturbed`). A pool that is cleared under an attempt runs dry;
one that deletions empty is no pool at all for later attempts. Two concurrent replacements
of a pool may leave their union. `dueTwin` names only the group that has waited longest,
so an archived twin starves the groups after it; after a loss of the state the group on
screen is forgotten. A trait whose options a candidate never picks stays the least
covered, and its cards are used up first. "Legacy Likert items are served at roughly
LEGACY_SELECTION_RATE and never otherwise", but the last resort serves them whenever the
others are used up.

*Scores and conclusions.* `report-builder.ts:335` says that a candidate who answered two
questions badly "has not earned 'not recommended' either"; the code caps a thin attempt
from above only and leaves `not_recommended` standing, and `report-builder.spec.ts:425`
("does not let thin evidence rescue a poor result") asserts just that.
`ThinEvidenceIsCapped` states the code's half, the cap, and admits `not_recommended`. One
trait of ten per cent weight establishes a composite; "no single trait can move the
outcome" does not hold with one measured trait; `MIN_COVERAGE_RATIO` is described as a
share of each section and applied to the total. Of two sections that declare one trait key
the later replaces the earlier even unmeasured (`report-builder.ts:250`). A trait that was
offered and never chosen has confidence 0 and a score other than 50. Traits that left a
section's vocabulary are dropped silently. Bands use the unrounded score. Questions the
clock ran out on count as answered for coverage. An edit between an answer and a rebuild
changes what the answer said. "The recommendation is capped accordingly" is printed when
there is none.

*Reports.* The job is `removeOnComplete`, so `add` under its id is a no-op only while it
lasts: a second finaliser (`sessions.service.ts:621` tests its own copy, although 616
calls whichever lands second "a no-op") that comes after the first job is done queues
another generation and another e-mail. `NoticesAreAccounted` counts the finalisers for
that reason. A report opened by its address during the attempt is partial (`early`), its
coverage counts only closed sections, and it may overwrite a later whole one. The second
finaliser's outcome never reaches the report. After a job that failed for good, a first
read that fails repairs nothing. Regenerating has an endpoint and no button.

*Review.* `candidate-review.entity.ts:87` says that sending is separate from deciding,
and `saveReview` e-mails on the click; the toast says "rejected and emailed" when the
save failed. Overlapping saves put back notes and stamps, and with a stamp the freeze of
the decision (`overlapped`).

*Mail and sweep.* The transport's "several emails at once" meets a worker of one (the
model takes the transport's word). A response lost after acceptance is sent again. A job
that fails by stalling never logs that it was given up. Rows that always throw can fill
every batch of the sweep; rows finished only in Redis are counted as closed until its
TTL.

## 5. What is proved

`tlapm` checks every theorem below for all values of the constants: any number of tabs,
sections, questions, companies, addresses, requests in flight, readers, visits, e-mails
and failures. The bounds of the exploration are constants too, so no theorem depends on
them. Assumptions are those the modules state of their constants, and TLC evaluates them
on each run. That the budget is a
natural number, and that the stored answers can be replayed, are inductions over
numbers; each is stated of a set of numbers (a set of naturals with a member has a least
one), which the provers can use, and not of an operator, which they cannot.

Every proof has the same shape. The property is seldom inductive; a stronger invariant
is, which says of every request in flight what it has read and what that is still
worth. Each was an invariant of a TLC run before it was proved. There is one lemma per
action, and under it one step per conjunct the action can disturb; writes that many
handlers make (an insert, a deletion, a save of a stale row) have one lemma each.

| Module | Theorem | Property | Inductive invariant |
|---|---|---|---|
| SessionRuntime_proofs | `TypeCorrect` | `TypeOK` | with `AtWork`: what each program counter needs |
| | `ClosedIsScored` | `ClosedAttemptIsScored` | `ScoredSoFar` |
| | `ClosedIsFinal` | `ClosedStaysClosed` | |
| | `CountsBacked` | `CountsAreBacked` | `AllBacked` |
| | `ImplementsLedger` | `RefinesLedger` | `RowExists` |
| | `AttemptIsWatched` | `OpenAttemptIsWatched` | `Watched` |
| OneTab_proofs | `NothingIsSkipped`, `SectionsAlwaysHold`, `ReplayIsAlwaysExact`, `InvitationEndsWithAttempt`, `DeadlineStaysFixed` | `NothingSkipped`, `SectionsHold`, `ReplayIsExact`, `InvitationFollowsAttempt`, `DeadlineIsFixed` | `OneTabInv` |
| Admission_proofs | `TypeCorrect`, `NothingEverDangles` | `TypeOK`, `NothingDangles` | `RequestsAreSound`, `EmptyIsBlank` |
| | `AdmissionStaysWhole`, `RecordsStayTheCompanysOwn` | `AdmissionIsWhole`, `RecordsAreTheCompanysOwn` | `WholeIInv` |
| | `CapNearlyHolds` | `CapOvershoot` | `CapIInv` |
| | `EntranceInvariant`, `PagesDoAgree`, `RetractionsDoHold` | `PagesAgree`, `RetractionsHold` | `EntranceIInv` |
| Accounts_proofs | `WorkspaceInvariant`, `WorkspaceStaysHeld` | `WorkspaceIsHeld` | `WorkspaceIInv` |
| | `SignInInvariant`, `ALinkWorksOnce`, `AnUnusedTokenIsHonoured`, `SessionsDoEnd` | `LinkWorksOnce`, `UnusedTokenIsHonoured`, `SessionsEnd` | `SignInIInv` |
| ReviewDesk_proofs | `TypeCorrect`, `ToldAtMostOnce`, `TellingsStayOnRecord`, `RetryStaysOpen` | `ToldOnce`, `ToldIsOnRecord`, `RetryIsOpen` | `Knows`, `Told`, `StampIsExplained` |
| QuestionPool_proofs | `TypeCorrect`, `BankIsWhole`, `AnsweredQuestionsStay`, `PoolsStayInTheCompany`, `ForksArePrivate`, `CheckedPoolsSuffice` | `OneVersionEach`, `AnswersKeepTheirQuestion`, `OtherCompaniesKeepTheirs`, `CuratedRunsFull` | `QuestionIInv` |
| | `PairsStaySound` | `PairsAreSound` | `ProbesIInv` |
| | `TurnsAreKept` | `PaperIsEvenHanded` | `SelectionIInv` |
| Evidence_proofs | `ReportInvariant`, `ReportsAreAlwaysWhole`, `NoticesAreAlwaysAccounted` | `ReportsAreWhole`, `NoticesAreAccounted` | `ReportIInv` |
| | `ReadinessInvariant`, `StepsAlwaysKeepToThemselves` | `StepsKeepToThemselves` | `ReadinessIInv` |
| | `VerdictInvariant`, `VerdictStaysFair` | `VerdictIsFair` | `VerdictIInv` |
| | `ScoringInvariant`, `ScoresStayTrue` | `ScoresMeanWhatTheySay` | `ScoringIInv` |
| Pages_proofs | `PageInvariant`, `WatchAlwaysFollowsThePage` | `WatchFollowsThePage` | `PageIInv` |
| | `FaceInvariant`, `FaceSignalsAreAlwaysEarned` | `FaceSignalsAreEarned` | `FaceIInv` |
| | `MailInvariant`, `MailIsAlwaysAccounted` | `MailIsAccounted` | `MailIInv` |

The arguments, in short:

- *The attempt.* `ClosedAttemptIsScored` says nothing of a finaliser on its way;
  `ScoredSoFar` adds that one at section `cur` has scored those before it.
  `CountsAreBacked` becomes `AllBacked`: working copies count no more than the table
  holds either, and rows are only added, so a stale copy stays a lower bound. The
  ledger needs that a process past creation works on a row that exists; then each action
  is one of the ledger's steps or a stutter.
- *Who watches the attempt.* `Watched` says which process is responsible for the deadline:
  the job that is queued, a request that has yet to queue it, the worker or the sweeper at
  it, or a request that is closing the attempt. What a queued job or a late worker knows of
  the row's deadline (`TimesFit`) rests on the deadline moving once, at the first Begin.
- *One tab.* One hypothesis, `OneTab`. The first Begin may come at any time, past the
  deadline it replaces too; what is proved holds until an opening is overtaken
  (`overtaken`), and the invariant says so of the present (`~overtaken => ~Overtaken`). Then
  whoever opens the attempt works alone (`OpeningAlone`), and outside an opening only the
  tab works before the deadline (`BackgroundIsLate`), so that whatever works after it can
  only close the attempt. That a Begin about to move the deadline is the
  first, and goes by the state Redis holds, is part of the invariant (`FirstFits`,
  `BeginFits`).
  A working copy between two calls is the live state plus what that handler has done so
  far (`CopiesAgree`, `BlobFits`, `TabFits`); a state is *good* when its counts, its closed
  sections and the questions it has seen are those of the tables, and every step of the
  tab leads from a good state to a good one; a rebuild makes a good one from the tables
  alone. Lengths and order follow (`Lengths`, `CoversFit`: an answer in a section means
  those before it are full), and, while Redis keeps the state, what is on the screen and
  that the first Begin is over (`KeptFits`, `ScreenFits`, `BegunFits`). All of it is
  asked only while no call has failed (`faults = 0 => Undisturbed`).
- *Admission.* A request names the slot its next query reads, and one about to write
  holds a copy with an id; a slot without an invitation has no leftovers, since a
  cascade deletes by what a row links. One lemma per kind of write shows the tables
  consistent however stale what it carries.
- *An undisturbed address.* One request at a time is on its way there (`Served`), and for
  each label `Fits` says what that request knows of the account and the rows and what it
  has still to put right: an account to create and link, an account to count the uses of
  and delete. Each handler's step hands over to the next label or leaves the address
  `Whole`; a step about another address leaves it `Still`. A deletion then takes rows of
  that company alone, because what it read of the others still holds (`StepErases`).
- *The cap.* The count of self-registered rows is not inductive, for a reschedule may put
  a removed row back and an entrant past the test will add one. `CapIInv` counts the
  places taken or that a pending save may take, and the entrants past the test. A pass of
  the test starts from fewer than `Cap` rows, and the requests about to save, those past
  the test and the one now passing are different requests: a cardinality argument.
- *Entrance.* A token is known to a candidate only once given out, a retired one is in
  no row that a lone request could save; a page says what the rows say unless they were
  saved since (`changed`); who was withdrawn before beginning has no start under way.
- *Sign-in.* Rows and tokens are numbered as issued. While no row was written from a
  stale copy, the current token and the recent ones are the newest of one sign-in, and
  the grace window holds all that are young enough: a cardinality argument (those newer
  than a token are at most `MaxRecent`). A link is claimed by one request at most.
- *Workspace.* While requests do not overlap, what the only one has read is what the
  rows say, so its count of owners is.
- *Review.* `Alone` says which request is past its read, `Knows` that its copy is the
  row, `Told` how the e-mails sum up to the stamp and the retries, `StampIsExplained`
  that a stamp without an e-mail has somebody about to undo it.
- *Questions.* Calls hold what they read; a call of a company can only write that
  company's rows (`OwnWrite`), so no other company's view moves (`OthersViewStays`), and no
  step but a call moves any (`OthersDoNotWrite`). A
  pool that was checked and untouched has as many servable questions as the section is
  long, of which the attempt has used fewer: a cardinality argument again.
- *Repeat probes.* The live state is at every moment the replay of the stored answers,
  with the question on screen added (`ProbesAreReplayed`), and what it remembers of a
  pair is what the rows say (`Remembers`). Appending an answer appends one step of the
  replay. A pair still open past its gap was passed over because an older pair is open
  whose twins are withdrawn (`PassedOverForReason`): twins never come back, so this stays.
- *Turns.* The counts the selector goes by are those of the stored rows
  (`CountsAreStored`), a card is put once, and the question on screen was chosen from the
  first non-empty of the selector's lists, so that it is about the trait in turn whenever
  the bank held a question about it (`TurnsAreTaken`): one answer then moves a
  count by one at most, and only of a trait or pattern that was behind or level.
- *Reports.* A generation that read the session after the close reads all results
  (`Follows`); each process in flight, each job that waits and each notice sent is owed to
  a call of `finalize`, a read, a refusal or a crash of its own (`Accounted`).
- *Wizard.* Each device has an owner or a visit awaiting it, each frame in flight belongs
  to a visit, and the verdict on screen is the live visit's (`Owned`, `VerdictFits`).
- *Conclusions.* `VerdictIInv` is only about the rows: an ability where an objective
  section was answered, traits where another was, a row everywhere once closed. The rest
  is arithmetic on `BuildReport`. The sums are folds, of which the lemmas say that any
  term can be taken first, that terms matched one to one add up alike, and that larger
  terms make no smaller sum; this is an induction over the subsets of a finite set, stated
  of a set of subsets. A better result matches sections, traits and composites one to one
  with the old ones, at the same weights and confidences, and means, rounding, blend and
  bands keep that order. A trait of confidence 0 is present in no composite and no
  finding. Confidence comes in thirds, so a composite at 80 has a trait at 100.
- *Scores.* `ScoringIInv`: every tally is on its scale, and while no answered question was
  edited every answer fits its question and the tallies are the replay of the rows, so the
  rebuild and the evidence follow. A replay comes to the totals of what its rows add. That
  answering at random earns fifty goes from one question to the whole attempt. Of one
  question: the mean over its choices is exact, because `Unit` divides by two to six, and
  for rankings it is nothing, because the order turned round takes back what the order
  gave. Of an attempt: an answer sheet is one answer for each question, and the sums over
  all sheets of what they gain above chance cancel, by induction on the questions: a sheet
  over one more is a sheet and an answer, and each answer's weight is in how many ways it
  can be given. No sheet leaves the scale, so none is clamped, and rounding moves each
  score by half a tenth at most, hence the mean.
- *Test screen.* Until `tangled`, the page is quiet, loading or beginning a section, and
  no reply in flight goes further than the end of the section on screen; the latch, the
  timer and the counts then say where the candidate is.
- *Face loop.* The counters are the length of the run the last verdicts form.
- *E-mail.* One request for a token at a time, of which every waiting send is a waiter; a
  retry never holds the token that was refused. The provider has a token to spare,
  because each delivery uses two at most: a cardinality argument.

**Only model-checked**, and why: liveness (`OpenAttemptCloses`, `SweepReachesAll`, `CloseIsReported`, `SignalsLand`,
`GoodEnoughPasses`): fairness and ENABLED are beyond the prover. Every invariant and every
action property the runs check is a theorem, but for the single claims that section 4
refutes.

## 6. Not modelled

- *Companies and the module catalogue, practice questions, controllers, migrations and
  seeds*: single-row writes and wiring. What the migrations create that the code relies
  on (unique indexes, foreign keys, cascades) is part of the models.
- *Ability estimation* (logistic updates of floating-point numbers), consistency, item
  statistics and difficulty: `TraitSelection` and `ProbePairs` leave the choice among
  equally eligible questions open. Rounding is exact up to binary fractions.
- *Wording and layout*: the narrative, the PDF, the spreadsheet, e-mail templates,
  toasts.
- *Pure input and output*: parsing of imports, SMTP, HTTP, rate limits, the domain
  restriction of a link, hashing and JWTs.
- *Pages that render what one request returned*, the keyboard guards, the noise meter
  (nothing starts it) and the second-display query of the hook.
- In `QuestionPool`, several sections and twins (`ProbePairs` has those); in `Entrance`,
  the deletion of a round; in `TraitSelection`, that the selector's queries are not one
  transaction.

Postgres, Redis, BullMQ, socket.io, the browser and the mail provider are external and
modelled by what the code relies on: unique indexes, foreign keys, row locks of a
transaction, single-key writes, a job per id, stalls, a fixed number of reconnections,
events in any order, tokens that expire or are revoked.


## 7. What is left

Several sections in `QuestionPool`, which would have curated pools of two sections draw on
one shared bank; and the parts that section 6 lists.
