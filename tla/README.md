# Carol, verified

Carol records Twitch lives, transcribes and analyses them, and shows the streamer a
report. The program is a set of processes around one PostgreSQL database: they do not
call each other, they read and write rows. Nearly everything that can go wrong in it
goes wrong between two commits. These modules model that: the rows, the processes, and
every point at which one process can act between two steps of another.

Paths below are relative to `src/`.

## 1. The system

| component | state it keeps | operations | works with |
|---|---|---|---|
| **EventSub inbox** `core/eventsub.py`, `apps/api/eventsub.py` | `eventsub_messages` | check freshness, claim an id, prune, dispatch to a handler | Twitch (retries); writes `streams`, `followers`, `events` |
| **Live capture** `core/streams.py`, `workers/capture/main.py`, `session.py`, `ViewerSampler` | `streams`; a session per live in memory | open and end a row, poll, sample, finalise | inbox opens and ends rows; finalising queues a job |
| **Chat collector, clips, recorder** `workers/capture/collectors.py`, `clip_detector.py` | chat buffer, ffmpeg process, segments on S3 | connect, flush, detect, upload | started and stopped by the capture session |
| **Job queue and worker loop** `core/worker_loop.py`, `core/queues.py` | `jobs`, `streams.status` | enqueue, pick, run, beat, reclaim, register a failure | capture queues; transcribe queues analyze |
| **Transcription** `workers/transcribe/pipeline.py` | `transcript_segments` | merge spans, classify regions, replace rows | handler of the job loop |
| **Analysis** `workers/analyze/*`, `core/llm.py` | `peaks`, `insights`, recommendations, token budget | block by block, final steps, evidence check | handler of the job loop; feeds records |
| **Stream records** `core/records.py` | `stream_records` | compare with the best so far, rebuild | called by analysis |
| **Follower sync** `core/follower_sync.py`, `workers/followers/main.py` | `followers`, `unfollows`, cursor and error in `channels` | walk, enrich, confirm departures, stamp | inserts beside the inbox; sign-in asks for a pass |
| **Channel tokens, sign-in** `core/channels.py`, `apps/api/auth.py` | the grant in `channels`, the cookie | OAuth callback, refresh | used by all that call Helix |
| **Backfill** `core/backfill.py` | vips, goals, subscriptions, past broadcasts | one step per list, at sign-in | tokens |
| **Digests** `scripts/send_email_digests.py`, `core/mailer.py`, `core/digest.py` | `email_digest_log` | choose, reserve, send, stamp | hourly cron; Resend |
| **Tips** `core/integrations/*` | `external_tips`, sync time | fetch since, insert unseen | StreamElements |
| **Screens** `apps/api/dashboard.py`, `channel.py`, ... | none | read-only queries | |
| **Web app, storage, i18n, migrations, simulator** | none that the above depends on | | |

What makes each correct, and what makes that hard:

- *Inbox.* A notification should take effect once although Twitch retries it, two processes
  overlap during a redeploy, and the claim is pruned by a clock other than the one that
  judges freshness. At the edge of the two equal windows it may take effect again; what
  keeps that rare is that each repeat costs a whole window.
- *Capture.* One active row per channel, ended by the right live, finalised once, whoever
  of webhook, sampler and worker comes first and whichever notification is lost or late.
- *Job queue.* A report is never stranded and never written twice; it fails only after
  its attempts are spent. Workers die anywhere, beats are lost, picking takes no lock.
- *Follower sync.* The table becomes Twitch's list; a faithful follower is never dropped.
  The list moves under the walk, the walk stops and resumes, notifications insert beside it.
- *Tokens.* The grant on file is one Twitch honours: `ensure_fresh_token` only flushes, and
  sign-in, backfill, clip tasks and the follower worker refresh beside each other.
- *Digests.* One mail per channel and period, and none left out for good: runs overlap,
  start late or are skipped, die on either side of the call that sends, and are not
  always told what became of the mail.
- *Chat.* What is heard is stored once, although two threads write and either may fail or
  outlive its loop; clips are made beside it under a cap, which a restart forgets.
- *Sound.* Each file reaches the storage whole and the transcript is of what is stored: uploads
  fail, takes restart, files are numbered anew. No speech falls between two regions.
- *Analysis.* Blocks leave the final steps their share of one budget, though prompts hold
  text that no cap limits; what is stored as evidence was seen, whatever the model cites.
- *Records.* The best mark stays on the table, in whatever order lives are analysed again.
- *Tips.* A sync stores what was sold since the last, none twice, while another sync moves
  the cursor and stores beside it.
- *Screens.* Some thirty pages and mails compute the same numbers by queries of their own:
  they agree, money is counted once, and nothing of another channel shows.

`PROJECT.json` lists the same hazards with the lines at which they bite and the
properties that would catch them.

### How the parts meet

    Twitch --notify--> EventSubInbox --opens/ends--> LiveCapture --queues--> JobPipeline
                           |                                                     |
                           +--inserts followers--> FollowerSync

      LiveCapture implements CaptureLifecycle, JobPipeline implements ReportLifecycle

    Recording --objects--> SpeechRegions --> Analysis --> StreamRecords
        every table --> Screens, read by ScreenRows --> Dashboard, Ledger, Recap --> Pages, mail

Each arrow is a table, so each module takes its neighbour's part as an action:
`JobPipeline!Finalize` is what `LiveCapture!Finalize` commits; a message that
`EventSubInbox` gives up is a `LiveCapture!Lose` or a `FollowerSync!LoseNews`;
`EventSubInbox!SyncInsert` is the insert in `FollowerSync!Store`; `CaptureLifecycle!HandOver`
is `ReportLifecycle!Enqueue`; `Analysis` and the transcription of `Recording` are the handlers
that `JobPipeline` starts, and their failures are its `Fail`; `Screens!EndLive`, `TranscribeLive` and `AnalyseLive` are the commits of
`LiveCapture` and `JobPipeline`.

## 2. What is modelled

### ReportLifecycle: what the pipeline promises

The stage of each live (`StreamStatus`) and the attempts spent on the step it is in. No
jobs, no workers, no crashes. A step is attempted at most `MaxAttempts` times; it succeeds
and the live moves on, or its last attempt is lost and the live fails for good. Fairness:
a live that has left `capturing` gets somewhere.

### JobPipeline: `core/worker_loop.py`, `core/queues.py`, the two `WorkerSpec`s

| variable | stands for |
|---|---|
| `stage`, `status`, `attempts` | `streams.status`, `jobs.status`, `jobs.attempts` |
| `age` | heartbeat intervals since `jobs.last_heartbeat` |
| `output` | committed copies of what a handler writes for a live |
| `pc`, `mem` | where a worker is in `run_worker`, and what its session has read |

Actions follow `run_worker`: `Scan`, `Reclaim` (`reclaim_dead_jobs` reads, then commits),
`Pick` or `Sleep`, `Start` (`_run_job` up to the handler), `Beat`, `Succeed` or `Fail`
(with `_register_failure`); `Crash`, `Restart`, `Tick`; `Finalize` is the capture's commit.
What was read in one step is written in another, from `mem`: the attempts count is
computed from the value read, and `streams.status` is not written where the session
holds that value already.

The handler is one transaction. It deletes the rows of earlier runs when it starts
(`wiped`: what its DELETE saw) and adds its own; they count when the loop commits. The
urgency order of `pick_next_job` is left open, so whatever order it computes is covered.

### EventSubInbox: `core/eventsub.py`, `apps/api/eventsub.py`

`rows` and `receivedAt` are `eventsub_messages`. A handler is a process inside
`eventsub_callback`: `Receive` (the age check), `Claim` or `Duplicate` (`claim_message`
with its pruning DELETE and its commit), `Read`, `Commit` or `GiveUp`, and `Crash`. The
database separates these steps. `SyncInsert` is the follower sync inserting the follower
a notification is about, which makes the notification's own insert collide.

Three clocks stamp a message, Twitch's, the api's and the database's. `Tick` moves them
together; `SenderAhead` and `DbAhead` are their differences and `MaxDelay` the longest
way from the age check to the claim. Nothing is assumed of how they compare with the two
windows, which in the code have the same length. A retry keeps the id and the timestamp of the
message. Signature checks and message types other than notification are left out: they
have no state.

### LiveCapture: `core/streams.py`, `workers/capture/`, the stream handlers

One channel. Lives are numbered; a row has the number of the live whose `stream.online`
opened it. `HearOnline` and `HearOffline` read the active row, `OpenRow` and `EndRow`
write. `Poll` and `Finalize` are the worker. `SampleLive`, `SampleEmpty`, `SampleDies` and
`EndFromHelix` are the sampler of a session: `_note_offline` counts empty answers, reads
the row, and writes `ended_at` in a later step. A sample refused with `TwitchAuthError`
changes nothing and is a stutter; any other exception ends the task (`SampleDies`).
`Crash` takes the worker and its sessions.

`ordered` is chosen once for a behaviour: whether notifications are handled in the order
sent. There is one api process and one capture worker (`deploy/app.yaml`).

### CaptureLifecycle: what the capture promises

The rows of a channel with nobody in particular writing them: one is opened while no other is
open, ends, and is handed to the queue with one transcription, each once. `LiveCapture` maps to
it by `Phase`, which reads `status` and `ended_at`: the insert of `OpenRow` is `Open`, the first
of `EndRow` and `EndFromHelix` to write is `End` and the other a stutter, `Finalize` is
`HandOver`, and everything else is a stutter.

### FollowerSync: `core/follower_sync.py`, `workers/followers/main.py`

One channel, its rows in `followers`, its state in `channels`. Times are kept only as they
compare with the start of the pass: `seen` are the rows whose `last_seen_at` is that start,
`fresh` those followed after it. `ahead` is whom the cursor has still to return.

`Select` and `Begin` (new pass or resumed), `Fetch` and `Store` (look-up and commit of a
page), `Enrich`, then `TakeBatch`, `Confirm` one by one, `RecordGone`, or `SkipConfirm`
where nobody is missing or too many are; `Close` stamps the pass. `NoToken`, `Interrupt`,
`Abandon` and `Crash` are the ways out. Beside it: `Follow`, `Unfollow`, `Revoke`; the
notification handler in two steps, `Hear` and `Insert`; the sign-in, `SignIn` and
`RequestSync` (after the backfill, from the channel as sign-in read it).

When somebody leaves the list, those behind move up: `Unfollow` may take one from `ahead`,
who has slipped over the cursor. This is what `_still_follows` is for.

`AlwaysAllowed` stands for the larger limit of `_too_many_to_believe` (ten, or a quarter of
the reported total). An account that no longer exists is a departure. Left out: the
cool-off and the pacing, which only delay, and the profile fields.

### DigestMailer: `scripts/send_email_digests.py`, `core/mailer.py`

`log` is the committed `email_digest_log`, a row for each channel and `period_start`;
`holder` is the run that has inserted a row and not committed it, for which the unique
index makes every other insert wait. Against them stands `delivered`, what Resend has
accepted, and `slips`, what it accepted and the job does not know of.

A run reads the clock and the channels (`Begin`), and takes each one in any order: not
due or already there (`Skip`), else `Take` (the recap is built), `Reserve` or `Refused`,
then `Send`, `SendUnanswered` (`MailerUncertain`: the mail may be with Resend) or
`SendFails` (`MailerError`: an error status, or a 2xx without an id), then `Commit`;
`Crash` anywhere. `zones` is what the run read of the channels; after a rollback
SQLAlchemy reads them again, so either value may be used. Beside it `Tick` passes an hour,
with or without its cron run, and `Move` is `PATCH /preferences` with another time zone.

Hours are counted from an arbitrary Monday, `Day` hours to a day and `Week` to a period.
`StartAt` is `last_week_bounds`: the period before the one that `now` falls in, locally,
as an instant. The monthly mail is the same protocol with its own rows. Zones without
daylight saving; a channel without address, lives or opt-in is not among `Channels`.

### ChatCollector: `workers/capture/collectors.py`, `core/irc.py`, `clip_detector.py`

The collector of one live, over the deaths of its worker. `irc` is the connection,
`spell` and `gap` the time it is said to have been away; `buffer` is `_buffer`. Two threads
write to the database: the flush loop's (`Flush`, then its commit or its loss) and the last
flush at the end, which does not wait for the other. Each message is followed until it is a row
of `chat_messages` or cannot become one any more (`unsaved`). `_ensured_months` is filled before
the commit that creates the partition, so a rollback leaves it wrong. Clip tasks run beside, each
marked before it asks Twitch; the detector's count dies with the worker, the clips it made do not.

### Recording: `AudioRecorder`, `workers/transcribe/pipeline.py`

From what is on the air to what is in the transcript. A take is a run of ffmpeg;
its files are numbered from 0, and `UploadClosed` sends all but the newest while it records.
Stopping drains, a failed upload ends the take, a new worker starts another and writes over
the objects of the last. The job reads the objects in order, asks the endpoint up to
`MaxAttempts` times, and replaces the rows.

### SpeechRegions: `merge_speech_spans`, `classify_regions`

What of a file is sent to be transcribed. The voice detector may find any spans in order; the
two loops run one turn a step: `MergeSpan`, `AllMerged`, then `PlaceSpan` (the pause before a
span, where it is long enough, and the span) and `EndRegions` (what is left of the file).

### Analysis: `workers/analyze/`, `core/llm.py`, `core/follower_ai.py`, `core/monetization.py`

`run_analysis` step by step: peaks, blocks, summary, topics, recommendations, then the advice
on the channel, on followers and on personas. `inputLeft` and `outputLeft` are the
`TokenBudget`, which a call of `run_analysis` makes for itself (`NewBudget`), so that a retry
starts with a full one; a prompt may hold `Extras` tokens outside its cap and an answer may
count `Drifts` more than asked for. The answers cite any ids: of rows whose line is in the prompt
(`"shown"`), of rows gathered for it that are not in it (`"gathered"`: `fit_input` cuts the text,
and the ids stay allowed), and of others (`"foreign"`). `Verified` is `validated_evidence`, and
`Accepted` what an answer can leave. An error rolls everything back.

### StreamRecords: `core/records.py`, `scripts/backfill_records.py`

One metric of the fourteen. An analysis writes the live's row (`Update`) in a
transaction that stays open; the backfill goes through the ready lives in one of its own.
`report` and `sweep` hold what each will change. Deleting a row another has deleted waits.

### ChannelGrant: `core/channels.py`, `apps/api/auth.py`, `core/backfill.py`

Refresh tokens are numbers; `live` are those Twitch honours. A caller reads the grant
(`Ensure`), is answered with the same token or a new one (`Grant`) or refused, flushes, and
commits it with its work, over whatever is on file by then, or loses it with a rollback.
`answers` is chosen once for a behaviour: Twitch sends the same refresh token back, or always a
new one, or now one and now the other. Why a token is no longer honoured is written down when
it happens and nowhere else: `revoked` by `Disconnect`, `orphaned` by the `RollBack` of a
transaction that was given its successor. A commit excuses nothing. `SignIn` stores a grant of its own and
starts the backfill's steps, each a transaction. `Disconnect` is the streamer's.

### TipsSync: `core/integrations/`

Two overlapping syncs of a channel: tips, merchandise, loyalty. Each part is fetched from the
cursor the sync read (`FetchTips`, `FetchMerch`), compared with the ids stored (`Check`, a step
of its own, for another sync may commit between the two), and committed (`StoreTips`,
`StoreMerch`); `synced_at` becomes the time of the tips' commit. A fetch brings `PageCap` rows at
most: of tips the oldest, which are asked for by their time; of merchandise any, since the feed
holds other activities that the cap counts too. `before` is what had been sold when a sync began,
and `whole` whether the cap has cut none of its fetches; no sale is excused for when it was made
or for what failed.

### ScreenRows, Dashboard, Ledger, Recap, Pages, Screens: what is shown

The first five are pure operators of a database `db`, one to a query or computation of the code:
`ScreenRows` is how its rows are read, `Dashboard` the list of lives and the screens of one,
`Ledger` the channel, its money, supporters and loyalty, `Recap` the mails and the facts of the
advice, and `Pages` all that is served or mailed. `Screens` is the state: `world` is what will
have been stored, `db` what is stored so far, and its actions store it as the pipeline does, live
by live, with feedback, curated clips and changes of zone in between; the channel's row has its
follower total from the sync, or none yet. `OwnRows(c)` is the
tables cut down to the channel's own rows, with which `KeptToChannel` compares the pages.
Amounts are cents, averages are times ten, texts are sets of words; labels, links and wording
are left out.

`Schema` is what the pages rest on: the keys of `core/models.py`, a type for each column a page
computes with, the `channel_id` that a row of a live repeats, and that an insight cites what was
said on its own live, which `_resolve_citations` sees to. The constants' assumptions are these:
`WorldsAssumption`, that what comes to be stored satisfies the schema (nothing is assumed of the
tables on the way there, which `RowsInv` is about); `MailedAssumption`, that the periods looked at
are all those in which a live may start, as the cron mails each of them; and the numbers' types.

### MCSideJobs, MCJobsAndAnalysis, MCMailAndScreens: several modules, one instance

The seven of `MCSideJobs` meet only in tables which each module takes as its own; to the queue of
`MCJobsAndAnalysis` the handler of an analyze job is one step, and the handler knows nothing of
the queue; and the mailing job reads none of the rows the screens show that it could disturb. A
behaviour of these picks one of its `part`s and leaves the others where they start, so that one
run checks each on an instance of its own. Nothing is multiplied and nothing is shown of the
parts together.

## 3. What is checked

Properties are stated with their reasons in the modules. The passing runs:

| run | instance | shows |
|---|---|---|
| `job_pipeline` | *queue*: two lives, one worker per type, 2 attempts, crashes and lost beats unbounded. *Analysis*: budgets of 13 and 8 tokens, one peak, two blocks, up to one token outside a cap and one beyond an answer's limit | the rows of lives, jobs and output stay consistent; every step is one of `ReportLifecycle`. A run of the analysis overspends by one prompt's or answer's excess at most, and each final step finds its reserve but for as little |
| `job_pipeline_live` | one live, 3 attempts, fairness | the live ends `ready` or `failed`; the refinement holds with fairness |
| `live_capture` | two lives, notifications in order and out of order, two losses, one transport error, two crashes, two empty answers in a row, fairness | one active row, sampler stopped first; in order: no live cut short, none glued to another before a loss; every row settles once off the air, unless a sampler has died; a row that has ended is finalised in any case; every step is one of `CaptureLifecycle`: a row is finalised once, with one job, and after it has ended |
| `follower_sync` | two accounts, pages of one, two changes, one fault, one revocation, sign-ins at will, fairness | a faithful follower is kept, a walk resumes, the table converges |
| `side_jobs` | *Inbox*: a follow and a cheer, two processes, retries at will, windows of one length, four time units. *Records*: three lives, one of them old, marks up to 2, two commits. *Grant*: the sign-in and one more user, three tokens, two steps, three ways of answering. *Tips*: two syncs, two sales, pages of one, one failed fetch. *Chat*: two messages, two faults or deaths. *Sound*: three segments, three takes, two attempts. *Regions*: files of eight seconds, up to three spans | a notification is taken again only after a whole retention time; the table a window, every answer accounted for; the best mark kept; dead grants and refusals explained while Twitch answers in one way; a sync stores its window; chat and sound accounted for, no speech lost |
| `mail_and_screens` | *mail*: one channel, two overlapping runs, two zones, four hours, two faults, one move. *Screens*: two channels, four worlds (talk, money, an ad, people) and an empty one, lists cut at three | a recap goes out again only after one the job did not learn of; a committed row is final; a period is lost only if every due hour of it was missed; the pages agree with each other and with the mails, money adds up, nothing of another channel shows |

Each passing property has a mutant: the formulas named `Action_Fault` beside the actions
are plausible bugs of the code, and the property fails when the action is replaced.

### Where the code and its words part

Six runs of `PROJECT.json` (expected to fail) state what a comment or document says of the program
and end in a counterexample; eight more configurations, further down, do the same.

- `eventsub_lost`: the claim is committed before the handling. If the handling is then
  lost, the retry is told 204 and the notification is never handled, although
  `claim_message` says its False means "already processed".
- `live_capture_reordered`: `stream.offline` ends whichever row is active. Handled after
  the next `stream.online`, it ends the capture of the live on the air, and nothing
  opens another: not "qualquer live do canal".
- `live_capture_blind`: `ViewerSampler.run` catches `TwitchAuthError` only. One timeout
  ends the task; should `stream.offline` be lost too, the row is captured for ever, which
  the sampler is there to prevent.
- `follower_sync_token`: any failure of `ensure_fresh_token`, a timeout as well as a 5xx
  of the token endpoint, is recorded as one "only its owner can fix"; the channel is left
  out of `channels_due` until the streamer signs in.
- `digest_zones`: `period_start` is last Monday's midnight in the zone the channel has at
  the moment. A streamer who changes zone between two hourly runs gives the same week
  another key, and the recap is mailed twice, although "the unique constraint is what
  makes the sending job idempotent" (`core/models.py:474`).

- `chat_gap`: `gap_seconds` counts the time a connection that fails was up as time lost, and
  not the time without chat. The report shows it as "~{seconds}s lost".

Each of the following has a configuration that is not among the runs of `PROJECT.json`. `tlc`
with it, on the module in parentheses, ends in a counterexample of the property named, which is
what the code does; no passing run claims the property.

- `MCJobPoolTwice.cfg` (`MCJobPipeline`), `RerunsReplace`: "Idempotent: reruns
  replace previous rows" (`workers/transcribe/pipeline.py:262`). `pick_next_job` is a plain SELECT
  and the job is marked in a later commit; `reclaim_dead_jobs` writes jobs it selected earlier.
  With two transcribe workers, of the pool that `core/config.py:80` describes and
  `deploy/app.yaml:196` has a dial for, both may run one job and both insert. With the dial
  at one, as it is, `OutputOncePerStep` holds; that is the assumption of the job pipeline's runs
  and theorems, and nothing of the kind is claimed for a pool.
- `MCEventSubTwice.cfg` (`MCEventSubInbox`), `HandledAtMostOnce`: "so Twitch's retries are dropped"
  (`core/models.py:609`). Claims are kept for 600 s and messages let through for 600 s
  (`core/eventsub.py:35-36`): a retry that passes the age check at the edge, and takes any time to
  its claim, finds the first claim pruned. One message, one process, clocks that agree.
- `MCAnalysisStarved.cfg` (`MCAnalysis`), `FinalStepsRun`: the reserve is "what summary + topics +
  recommendations need to be allowed to run at all", which blocks "must never spend below"
  (`workers/analyze/pipeline.py:66-67`). The guard of a block counts the cap of its prompt;
  what is sent beside it (instructions, the summary before) is spent all the same, and a final
  step may then be refused.
- `MCAnalysisUnseen.cfg` (`MCAnalysis`), `EvidenceWasSeen`: "A reference only counts when the model
  actually saw it in the prompt" (`workers/analyze/evidence.py:26`). The ids allowed are those
  gathered (`pipeline.py:209`), of which `fit_input` may have cut the lines (`pipeline.py:281` for a peak).
- `MCGrantLost.cfg` (`MCChannelGrant`), `RotatedTokenPersisted`: `ensure_fresh_token` is said to
  refresh "(and persisting the rotated refresh token)" (`core/channels.py:49-50`). It flushes
  (`:57`), and the caller's rollback takes the successor with it: a dead token stays on file.
- `MCGrantOverwritten.cfg` (`MCChannelGrant`), `StoredTokenStays`: the same words, and "Connecting
  again fixes it" (`apps/web/src/locales/en.ts:335`). A transaction that was given its token before
  a sign-in, or before another's refresh, commits it over theirs, though Twitch may honour it no
  more.
- `MCTipsMissed.cfg` (`TipsSync`), `NextSyncRetries`: after a failure "the next sync retries"
  (`apps/api/integrations.py:90-91`), and the cursor "is a fetch optimization; dedup guarantees
  correctness regardless" (`core/integrations/tips.py:130-131`). The cursor moves with the commit of
  the tips (`tips.py:121`): sales of the window that failed after it, or were made between fetch and
  commit, are in no later window.
- `MCClipsPerStream.cfg` (`ChatCollector`), `ClipsPerStream`: "a cooldown and a per-stream cap"
  (`workers/capture/clip_detector.py:4`), "com cooldown e teto por stream" (`ARCHITECTURE.md:89`).
  The count is the detector's (`clip_detector.py:41`): a worker that restarts during a live makes as
  many clips again.

More was met that has no configuration, most of it plain from the code.

- `scripts/backfill_records.py:5` says "Idempotent: re-running rebuilds the same rows". A
  second run compares an old live with the marks of later ones, so its row is dropped; the
  best mark stays (`BestMarkKept`), the history does not.
- The chat of an email is read from a window around its lives (`core/digest.py:86`). `RecapAgrees`
  compares the chatters of a period whose chat is all inside that window; what lies outside it is
  left out of an email without a property to notice.
- A backfill beside an analysis may take away the row the other relied on; `BestMarkKept`
  leaves such behaviours out (`crossed`).
- The recorder: ffmpeg ending early leaves the rest of the live unrecorded; a failed upload
  ends the take and the work directory; a restart numbers its files from 000 again.
- `_ensured_months` is filled before the commit (`core/db.py:44`).
- `spoken_language` is read and committed around the transcription, and may write over a
  language declared meanwhile (`workers/transcribe/pipeline.py:296`).
- The tipping name of a person in two spellings: `top_people` keeps one of the two sums
  (`apps/api/finance.py:596-631`), and a payment may count under several topics. `MoneyAddsUp`
  compares neither: it is about the folds by live, payer, category and period.
- Numbers that mean different things on different screens: `subs_gained` counts a gifted
  subscription as one more where the mail counts `sub` alone; the channel's money is of all
  lives where other pages take the ready ones; the list by live is cut to the 50 oldest; the
  category average divides the money of all lives by the hours of the paying categories;
  someone who changed name is one author and two chatters. The properties of `Screens`
  compare only what is said to be the same.

And one that `Commit` of DigestMailer shows: `core/models.py:476` says a
row whose `sent_at` stays null "means the send failed and the job deletes it so the next
run retries". Such a row is what the job commits after `MailerUncertain`, and it is final
(`ReservationIsFinal`).

### Bounds

- *JobPipeline.* Two lives are enough for two jobs of one type to be dead at once and to
  compete for a worker; crashes and lost beats have no bound there, and the attempts end
  the runs. In `job_pipeline` a job is stale after one interval and in
  `job_pipeline_live` after two: the difference costs states and shows nothing new.
  The ids include a second analyze job per live, so that one queued twice would show.
- *EventSubInbox* (in `side_jobs`). Four time units are two windows: a claim can be made, pruned and
  followed by a late retry. Both windows are one unit, as both are 600 s in the code, the clocks
  agree, and a delivery may take one unit (`MaxDelay`) from its age check to its claim: the second
  taking of a message, which the code allows, occurs, and `RepeatsSpaced` says when.
- *LiveCapture.* Two lives let what is left of the first meet the second, and two losses
  can take both notifications of one; two empty answers are one fewer than
  `OFFLINE_SAMPLES_TO_END`. The safety properties were also checked with three lives
  (542 thousand states).
- *Analysis* (in `job_pipeline`). Thirteen tokens are the peak and the blocks with the reserve and a
  little more:
  every step is both allowed and skipped, and a run can end with either budget at zero.
- *StreamRecords.* Three lives are enough for a live between a lower and a higher one to be
  analysed again; two commits, for the second to find what the first left.
- *ChannelGrant.* Three tokens: the sign-in's, its successor, and one more rotation or sign-in. Two
  transactions may both refresh the token that one of them replaces.
- *TipsSync.* With pages of one, two sales at once go beyond the cap; two syncs overlap in any
  order of fetch, look and commit, and one part may fail.
- *ChatCollector.* Two messages are one in the buffer and one on its way; two troubles, a failed
  flush and a death.
- *Recording.* Three segments and three takes: a take writes over some of the objects of the one
  before and leaves others.
- *SpeechRegions.* Eight seconds with a merge gap of one and pauses of three: spans that touch,
  are joined or not, and pauses just long enough or too short, before, between and after them.
- *Screens.* Each world holds the rows its kind of page combines: two lives of one day with one
  person in both under two names, anonymous payments and payments of no category, a dip during
  an ad, two spellings of a tipper; and rows of the other channel beside each. Lists are cut at
  three (`Limit`); sums over a list are compared only where it cannot have been cut: it has fewer rows
  than that (`Few`). `RowsInv` and `Schema` of `db` were checked on the same instance before they were
  proved.
- *DigestMailer.* Days and periods of three hours, due from the second on: four hours hold
  a period, its end and the due hours of the next. Two zones an hour apart are enough for
  the period to begin at two instants. Two runs overlap over one row; a second channel
  meets the first only in being left out when a run dies, and was checked apart (two
  channels and two faults without moves, 101 thousand states; two channels, one fault and
  one move, 1.28 million). Days of two hours and periods of two days, so that a period has
  several due days, were checked too.
- *FollowerSync.* Two accounts and pages of one give a walk of two pages with a cursor
  between them; one fault or crash can fall anywhere and a pass can be resumed. The
  safety properties were also checked with three accounts and three changes (1.84 million
  states), and all of them with two accounts and three changes (853 thousand). Departures
  left to the next pass by `UNFOLLOW_CONFIRM_LIMIT` do not occur in the configured run,
  where a refusal comes first; the theorems cover them.

### Fairness, and why the code justifies it

- *JobPipeline.* Time passes, the platform restarts a process, a handler ends
  (`WF_vars(Succeed \/ Fail)`), and a worker is not killed for ever at the same line
  (strong fairness of each step of the loop). The third is an assumption: nothing in
  the code bounds a handler, and a hung one keeps beating and is never reclaimed.
- *LiveCapture.* The worker polls and finalises, a handler ends, and while the channel is
  off the air a sampler is answered in the end. Nothing is assumed of the streamer or of
  notifications. Crashes are bounded: a worker that always dies before three samples
  never ends a row.
- *FollowerSync.* The loop goes on (`Work \/ Interrupt`: a call is answered or fails),
  hours go by, and a refused grant is found out because access tokens expire. Faults are
  bounded; no sign-in is assumed. So `RowsConverge` allows a channel that waits for its
  owner, or whose departures are refused, for ever.

## 4. What is proved

Eight modules prove what follows for every value of the constants allowed by the modules'
assumptions: `JobPipelineProofs` and `LiveCaptureProofs`; `CollectorProofs` (EventSubInbox,
ChatCollector, Recording, SpeechRegions); `ConnectionProofs` (ChannelGrant, TipsSync,
DigestMailer); `ReportProofs` (Analysis, StreamRecords, FollowerSync); `ScreensProofs` (the rows,
the money, whose pages they are) and `RecapProofs` (the numbers, the emails), which rest on
`SumTheorems`. Every invariant and action property of the passing runs is proved, and the safety
part of both refinements.

- **JobPipeline**, assuming `OneWorkerPerType`, which is how `deploy/app.yaml` runs the
  workers. None of the properties is inductive
  alone. `IInv` adds to them what each job status implies about attempts and stage
  (`JobInv`), what a stage implies about jobs (`LiveInv`), and that what a worker has read
  is still true (`WorkerInv`): with one worker per type nobody else writes those rows, so
  a stale read cannot happen. Lemmas show that a step at one live disturbs no other worker
  (`OthersUndisturbed`), and one lemma per action that `IInv` is kept. From `IInv`:
  `TypeOK`, `NothingStranded`, `StageAgreesWithJobs`, `OutputOncePerStep`,
  `FailedOnlyWhenSpent`.
- **JobPipeline implements ReportLifecycle** (safety). The mapping takes `stage` as it is,
  and for `tries` the attempts of the live's one queued or running job. `Start` is
  `Attempt`, `Succeed` is `Finish`, `Fail` and `Reclaim` are `GiveUp` or stutter.
- **EventSubInbox**, for any windows, delays and differences of the clocks: `RepeatsSpaced`,
  `TableIsAWindow` and `AnsweredAccountedFor`. The stamp of a row is the account (`SpacedOK`): it lies
  a whole retention time after the message was sent for each time it was taken after the first,
  not later than a delivery is let through, and a row that is gone was pruned, its time being
  over. `AccountInv` is the invariant of the third: a row, too, is of a message accounted for.
  That a notification is handled once is not a theorem, for it is not so.
- **LiveCapture**, with no assumption on what is lost, reordered or restarted:
  `OneActiveRow`, `QueuedOnce`, `FinalizedHasEnded`, `SamplerWritesOpenRows`. `HookOK` says that what
  `start_stream` found (no active row) is still so when it inserts, because only it opens
  rows; `WorkerOK`, that sessions and the worker's list are of rows not yet finalised.
  Assuming `GlitchesCovered` (Helix is wrong fewer times in a row than
  `OFFLINE_SAMPLES_TO_END`): `EndedOnlyWhenOver` and `OwnRowWhileAiring`. `InOrder` says that
  with notifications in order an offline is never of a live before one heard of; `Followed`,
  that while none is lost a row is active only until its live's offline is acted upon, so that
  the next online finds none.
- **LiveCapture implements CaptureLifecycle** (safety), from the same `CaptureInv` and with no
  assumption on losses or order: `HookOK` is why an insert is an `Open`, `WorkerOK` why what the
  worker finalises is over, and why nobody ends a row that was never opened.
- **FollowerSync**, with no assumption: `TypeOK`, `GoneWereAway`, `RestartResumes`.
  `AwayOK` says that whoever is not in the list was away during this pass and that those
  about to be deleted were seen to be; `WalkOver`, that no cursor is stored after the walk.
- **DigestMailer**: `SentAgainOnlyAfterSlip` and `ReservationIsFinal`, for any number of
  runs at once. `HolderOK` says that a row in hand has one holder and is not committed;
  `MailsOK` counts each delivered mail against its row, the run that has just sent it, or
  a slip; the index alone carries it. `LostOnlyIfEveryHourFailed`, for any zones, hours of
  sending and lengths of day and period: `ServedInv` says of every hour whose run has begun that
  each channel was mailed, was not due, is counted among the failed, or is still before a run
  of that hour (`HoursOK`), and that what a run has read of the zones is still so (`SightOK`). It
  holds while no channel changes its zone, which is what the property speaks of. Of the
  arithmetic of periods nothing is used but that a key is a number: an hour is settled under the
  key that `StartAt` gives for it, whatever that is.
- **Analysis**, for any caps and budgets, any number of peaks and blocks, and any answers:
  `SpentWithinBudget` and `ReserveKept`. `WithinBudget` says that a budget is
  spent exactly until it is empty, after which nothing is asked; `ReserveKept` is inductive with
  it: what a block sends beside its cap can cut into the reserve once, for no block is asked
  after it, and each final step takes its own share and its own excess. So the theorem is of
  prompts with text outside their caps, and says what is missing, not that nothing is.
- **StreamRecords**, for any lives and marks: `BestMarkKept`. `Good` alone is not inductive,
  for a transaction commits later than it looks: `RecordsInv` adds that what an open one will
  leave is good too. Its lemma `UpdateKeepsGood` is the reason it works: a live loses its row only to
  a mark no lower than the row's.
- **ChannelGrant**, for any number of callers and tokens, where Twitch keeps to one way of answering
  (`answers # "mixed"`, a condition of the properties): `DeadGrantWasLost` and `RefusalExplained`. With
  the same token every time a token dies only by the streamer's hand (`SameOK`); with a new one
  every time, what a transaction was given is nobody else's and nobody can have replaced it before
  it is on file (`NewOK`), so that whatever is committed over whatever is not a token another has
  replaced. Where answers are mixed two transactions may hold a token and its successor, and the
  one that commits last decides: `StoredTokenStays` fails.
- **TipsSync**, for any number of syncs that overlap and fail: `SyncStoresItsWindow`. `PageOK` says that
  a page no cap has cut holds the window that was asked for until it is on the table; `HandsOK`,
  that what a sync found stored is still stored.
- **ChatCollector**: `ChatAccounted`, for any number of messages, faults and deaths.
  `PlacesOK` and `HandsOK` give each message one place and each batch one thread;
  `NoTrouble`, that without a fault nothing is unsaved.
- **Recording**: `SoundKept`, for a live of any length and any takes. `StorageOK` says that
  every object is whole and their numbers have no hole, `TakeOK` how far the
  uploads of the take at work have come, `JobOK` what the transcription has read.
- **SpeechRegions**: `SpeechKept`, for any number of spans, gaps and pauses. `MergedOK` and
  `PlacedOK` are the invariants of the two loops: merged spans are in order and
  cover what was joined; regions lie between 0 and the cursor and leave only short
  pauses between them.

- **Screens**, for any tables that satisfy the schema, any zones, limits and length of day and
  period. `RowsInv` is inductive, and gives `Schema(db)` at any time: a row is stored after what
  it refers to and under a key of its own, insights come with a live that is ready, and no step
  changes a column but the four that people or the pipeline may change. What follows is about one
  database, whatever step led to it:
  - `MoneyAddsUp`: every total is a part of one sum over the events (`Counted`), which lives,
    payers, categories and periods split (`ListAddsUp`), a payment being in the part of
    one live, one payer and one category, or of none. A longer period reads more rows, none of
    which is negative.
  - `NumbersAgree`: two queries fold the same rows, or one folds a partition of the other's; a
    rank is cut by `Limit` only where as many rows are before it, so that a list that came out
    short is whole.
  - `RecapAgrees`: a live's local start is in one period (`PeriodIs`), and that one is
    mailed (`PeriodMailed`), so that the periods partition the lives.
  - `KeptToChannel`: by the keys, every read a page makes of the tables gives the same rows when
    they hold the channel's alone (`OwnSuffice`, `SameReads`); then, page by page, the same rows
    give the same page. Such a lemma cannot be had for an endpoint that reads a table by neither
    the channel nor one of its lives.

  `SumTheorems` holds what these need about sums over a finite set: a sum is that of any one
  element and the rest, whichever is taken first; sums of disjoint parts add up; a larger set of
  natural numbers has no smaller sum. They need an induction over the subsets of a finite set,
  which is stated without an operator parameter, for a family of subsets (`SubsetInduction`), and
  proved from the well-foundedness of strict inclusion.

Only model-checked: what needs fairness (`Lifecycle`, `EveryLiveSettles`, `RowsSettle`,
`RowsHandedOver`, `RowsConverge`), which is out of the prover's reach. `TypeOK` is proved as part
of the invariants.

## 5. What is not modelled, and the plan

- *Text measures, the Twitch client, storage and configuration.* Their results are choices of
  the models: an answer, a refusal, an error, words.
- *The web app, migrations, deployment, tools and the simulator.* They keep no state that the
  rest depends on; the instance counts of `deploy/app.yaml` are used.
- *The queue's estimates* (`estimate_next_live` and the waiting times), the public examples,
  marketing and admin pages: averages over rows nobody else reads.
- *Registering subscriptions with Twitch, sessions and cookies, encryption.*
- *Finding peaks, the spoken language, the voice detector, the rate that makes a chat spike.*
  What they may find is arbitrary in `Analysis`, `SpeechRegions` and `ChatCollector`.
- *The followers page* and its signals: aggregations, of which only the personas are modelled.
- *Opting out of mails*, `--to` and dry runs.

What would come next:

1. Compositions: EventSubInbox as the channel of LiveCapture's notifications; CaptureLifecycle
   and ReportLifecycle as one specification of a live from its first notification to its report.
2. The followers page and its signals, as further operators of `Pages`, with a lemma of
   `KeptToChannel` for each.
3. DigestMailer with opting out between runs, months and weeks in one instance, and lives that
   become ready only after their week's recap has gone out.
