------------------------- MODULE ClientHelpersProofs -------------------------
(***************************************************************************)
(* Proofs about the processes of the Electron client: the relay of the      *)
(* packaged Mac client, for every set of hubs and any number of changes and *)
(* accidents; the process that watches the foreground on Windows, for any   *)
(* number of windows, requests, lines and mishaps; and the paste of a       *)
(* selection, for any number of selections, events, copies and attempts.    *)
(* They are about HelpersSpec, the specification the runs check.            *)
(***************************************************************************)
EXTENDS ClientHelpers, FiniteSetTheorems, TLAPS

Urls == Hubs \cup {Direct}

Starts ==
    [kind : {"sync", "recovery"}, url : Urls, latest : BOOLEAN, valid : BOOLEAN,
     phase : {"queued", "stopping", "writing", "listening", "leaving"},
     slot : Slots \cup {NoChild}, result : {"inactive", "error"}]

RelayTypeOK ==
    /\ procs \in [Slots -> {"none", "starting", "serving", "killed", "forced"}]
    /\ targets \in [Slots -> Urls]
    /\ child \in Slots \cup {NoChild} /\ ready \in BOOLEAN
    /\ stopping \in {"done", "pending", "failed"}

ProxyTypeOK ==
    /\ hubUrl \in Urls /\ caller \in {"idle", "stopping", "queued"}
    /\ hubRunning \in BOOLEAN /\ viaProxy \in BOOLEAN /\ quit \in BOOLEAN
    /\ RelayTypeOK
    /\ queue \in Seq(Starts)
    /\ retryTimer \in BOOLEAN /\ watched \in Slots \cup {NoChild}
    /\ changes \in Nat /\ accidents \in Nat

(***************************************************************************)
(* The inductive invariant.                                                *)
(***************************************************************************)

\* The field "child" names the process that was not told to stop, if there is one, and
\* "stopping" the fate of the last one that was.
ProcsSound ==
    /\ \A s \in Slots :
        /\ procs[s] \in {"starting", "serving"} => child = s
        /\ procs[s] = "killed" => child = NoChild /\ stopping = "pending"
        /\ procs[s] = "forced" => child = NoChild /\ stopping = "failed"
    /\ child # NoChild => procs[child] \in {"starting", "serving"} /\ stopping = "done"
    /\ ready => child # NoChild
    /\ \A s, r \in Slots : procs[s] # "none" /\ procs[r] # "none" => s = r

\* A start that was not superseded is for the settings in force.  The one that the
\* change of the settings waits for is the last, and no recovery comes after it.
QueueSound ==
    /\ \A i \in DOMAIN queue :
        /\ i # 1 => queue[i].phase = "queued"
        /\ queue[i].latest => queue[i].valid /\ queue[i].url = hubUrl /\ Desired
        /\ queue[i].kind = "sync" => caller = "queued" /\ i = Len(queue)
        /\ queue[i].kind = "sync" => queue[i].latest \/ quit
        /\ queue[i].valid => caller = "idle" \/ queue[i].kind = "sync"
    /\ caller # "idle" => ~retryTimer /\ watched = NoChild
    /\ retryTimer => Desired

\* What holds at each phase of the start underway: from the time the last process is
\* gone until the next is there, there is none.
PhaseSound ==
    queue # <<>> =>
        /\ first.phase \in {"stopping", "writing", "leaving"} => child = NoChild
        /\ first.phase = "writing" => \A s \in Slots : procs[s] = "none"
        /\ first.phase = "writing" => stopping = "done"
        /\ first.phase = "listening" =>
            /\ first.slot \in Slots /\ ~ready /\ child \in {NoChild, first.slot}
            /\ targets[first.slot] = first.url
            /\ \A s \in Slots : procs[s] # "none" => s = first.slot

\* The hub client knows of the relay whenever one may be started again.
HubSound ==
    /\ hubRunning => caller = "idle"
    /\ caller = "stopping" => hubUrl = Direct
    /\ ~Desired => child = NoChild
    /\ hubRunning /\ ~viaProxy =>
        ~retryTimer /\ watched = NoChild /\ \A i \in DOMAIN queue : ~queue[i].valid
    /\ FollowsSettings

ProxyInv == ProcsSound /\ QueueSound /\ PhaseSound /\ HubSound

(***************************************************************************)
(* What a step does to the queue of starts.                                *)
(***************************************************************************)

\* The first start moves on; the others are left alone.
LEMMA GoesQueue ==
  ASSUME ProxyTypeOK, queue # <<>>,
         NEW phase \in {"queued", "stopping", "writing", "listening", "leaving"},
         NEW slot \in Slots \cup {NoChild}, NEW result \in {"inactive", "error"},
         Goes(phase, slot, result)
  PROVE  /\ queue' \in Seq(Starts) /\ queue' # <<>> /\ Len(queue') = Len(queue)
         /\ DOMAIN queue' = DOMAIN queue
         /\ \A i \in DOMAIN queue : i # 1 => queue'[i] = queue[i]
         /\ 1 \in DOMAIN queue
         /\ queue'[1].phase = phase /\ queue'[1].slot = slot /\ queue'[1].result = result
         /\ queue'[1].latest = queue[1].latest /\ queue'[1].valid = queue[1].valid
         /\ queue'[1].url = queue[1].url /\ queue'[1].kind = queue[1].kind
         /\ first = queue[1] /\ first' = queue'[1] /\ first \in Starts
<1>1. /\ first = queue[1] /\ 1 \in DOMAIN queue /\ queue[1] \in Starts
      /\ DOMAIN queue = 1..Len(queue) /\ Len(queue) \in Nat
  BY DEF ProxyTypeOK, first
<1> DEFINE new == [queue[1] EXCEPT !.phase = phase, !.slot = slot, !.result = result]
<1>2. new \in Starts
  BY <1>1 DEF Starts
<1>3. queue' = [queue EXCEPT ![1] = new]
  BY <1>1 DEF Goes, Starts
<1>4. /\ queue' \in Seq(Starts) /\ Len(queue') = Len(queue) /\ DOMAIN queue' = DOMAIN queue
      /\ queue'[1] = new /\ \A i \in DOMAIN queue : i # 1 => queue'[i] = queue[i]
  <2> HIDE DEF new
  <2> QED  BY <1>1, <1>2, <1>3 DEF ProxyTypeOK
<1>5. /\ new.phase = phase /\ new.slot = slot /\ new.result = result
      /\ new.latest = queue[1].latest /\ new.valid = queue[1].valid
      /\ new.url = queue[1].url /\ new.kind = queue[1].kind
  BY <1>1 DEF Starts
<1>6. queue' # <<>>
  BY <1>4, <1>1
<1>7. first' = queue'[1]
  BY <1>4, <1>6 DEF first
<1> HIDE DEF new
<1> QED  BY <1>1, <1>4, <1>5, <1>6, <1>7

\* The first start ends, and the next, which has not begun, becomes the first.
LEMMA EndsQueue ==
  ASSUME ProxyTypeOK, queue # <<>>, queue' = Tail(queue)
  PROVE  /\ queue' \in Seq(Starts) /\ Len(queue') = Len(queue) - 1
         /\ \A i \in DOMAIN queue' : i + 1 \in DOMAIN queue /\ queue'[i] = queue[i + 1]
         /\ queue' # <<>> => first' = queue'[1] /\ 1 \in DOMAIN queue'
         /\ first = queue[1] /\ 1 \in DOMAIN queue /\ first \in Starts
         /\ \A i \in DOMAIN queue' : i \in Nat \ {0}
  BY DEF ProxyTypeOK, first

\* A function from 1..n is a sequence of length n.
LEMMA IsSequence ==
  ASSUME NEW S, NEW n \in Nat, NEW f, f = [i \in 1..n |-> f[i]], \A i \in 1..n : f[i] \in S
  PROVE  f \in Seq(S) /\ Len(f) = n
  OBVIOUS

\* What is left of a start that was superseded, or that is not valid any more.
Superseded(st) == [st EXCEPT !.latest = FALSE]
Invalidated(st) == [st EXCEPT !.latest = FALSE, !.valid = FALSE]

\* Nothing but the flags that say so is changed.
LEMMA ResetStart ==
  ASSUME NEW st \in Starts
  PROVE  /\ Superseded(st) \in Starts /\ Invalidated(st) \in Starts
         /\ Superseded(st).kind = st.kind /\ Invalidated(st).kind = st.kind
         /\ Superseded(st).phase = st.phase /\ Invalidated(st).phase = st.phase
         /\ Superseded(st).slot = st.slot /\ Invalidated(st).slot = st.slot
         /\ Superseded(st).url = st.url /\ Invalidated(st).url = st.url
         /\ ~Superseded(st).latest /\ ~Invalidated(st).latest
         /\ Superseded(st).valid = st.valid /\ ~Invalidated(st).valid
  BY DEF Starts, Superseded, Invalidated

\* The queue is reset start by start.
LEMMA OldStarts ==
  ASSUME ProxyTypeOK
  PROVE  /\ Supersede \in Seq(Starts) /\ Len(Supersede) = Len(queue)
         /\ Invalid \in Seq(Starts) /\ Len(Invalid) = Len(queue)
         /\ DOMAIN Supersede = DOMAIN queue /\ DOMAIN Invalid = DOMAIN queue
         /\ \A i \in DOMAIN queue :
              /\ Supersede[i].kind = queue[i].kind /\ Invalid[i].kind = queue[i].kind
              /\ Supersede[i].phase = queue[i].phase /\ Invalid[i].phase = queue[i].phase
              /\ Supersede[i].slot = queue[i].slot /\ Invalid[i].slot = queue[i].slot
              /\ Supersede[i].url = queue[i].url /\ Invalid[i].url = queue[i].url
              /\ ~Supersede[i].latest /\ ~Invalid[i].latest
              /\ Supersede[i].valid = queue[i].valid /\ ~Invalid[i].valid
<1>1. /\ Len(queue) \in Nat /\ DOMAIN queue = 1..Len(queue)
      /\ \A i \in 1..Len(queue) : queue[i] \in Starts
  BY DEF ProxyTypeOK
<1>2. Supersede = [i \in 1..Len(queue) |-> Supersede[i]]
  BY <1>1 DEF Supersede
<1>3. Invalid = [i \in 1..Len(queue) |-> Invalid[i]]
  BY <1>1 DEF Invalid
<1>4. \A i \in DOMAIN queue : Supersede[i] = Superseded(queue[i])
  BY DEF Supersede, Superseded
<1>5. \A i \in DOMAIN queue : Invalid[i] = Invalidated(queue[i])
  BY DEF Invalid, Invalidated
<1>6. \A i \in 1..Len(queue) : Supersede[i] \in Starts /\ Invalid[i] \in Starts
  BY <1>1, <1>4, <1>5, ResetStart
<1>7. Supersede \in Seq(Starts) /\ Len(Supersede) = Len(queue)
  BY <1>1, <1>2, <1>6, IsSequence
<1>8. Invalid \in Seq(Starts) /\ Len(Invalid) = Len(queue)
  BY <1>1, <1>3, <1>6, IsSequence
<1>9. DOMAIN Supersede = DOMAIN queue /\ DOMAIN Invalid = DOMAIN queue
  BY DEF Supersede, Invalid
<1> QED  BY <1>1, <1>4, <1>5, <1>7, <1>8, <1>9, ResetStart

\* A new start is queued behind the others, of which some fields are reset.
LEMMA AddsQueue ==
  ASSUME ProxyTypeOK, NEW old \in Seq(Starts), Len(old) = Len(queue),
         NEW kind \in {"sync", "recovery"}, NEW url \in Urls,
         queue' = Append(old, Start(kind, url))
  PROVE  /\ queue' \in Seq(Starts) /\ Len(queue') = Len(queue) + 1 /\ queue' # <<>>
         /\ first' = queue'[1]
         /\ queue'[Len(queue')] = Start(kind, url) /\ Len(queue) \in Nat
         /\ DOMAIN queue' = DOMAIN queue \cup {Len(queue')}
         /\ Len(queue') \notin DOMAIN queue
         /\ \A i \in DOMAIN queue : queue'[i] = old[i]
         /\ queue # <<>> => 1 \in DOMAIN queue /\ first = queue[1]
         /\ queue = <<>> => Len(queue') = 1
<1>1. Len(queue) \in Nat /\ DOMAIN queue = 1..Len(queue) /\ DOMAIN old = 1..Len(queue)
  BY DEF ProxyTypeOK
<1>2. Start(kind, url) \in Starts
  BY DEF Start, Starts, NoChild
<1>3. /\ queue' \in Seq(Starts) /\ Len(queue') = Len(queue) + 1 /\ queue' # <<>>
      /\ queue'[Len(queue')] = Start(kind, url)
      /\ \A i \in DOMAIN queue : queue'[i] = old[i]
      /\ DOMAIN queue' = 1..(Len(queue) + 1)
  BY <1>1, <1>2
<1>4. /\ queue # <<>> => 1 \in DOMAIN queue /\ first = queue[1]
      /\ queue = <<>> => Len(queue') = 1
  BY <1>1, <1>3 DEF first, ProxyTypeOK
<1>5. first' = queue'[1]
  BY <1>3 DEF first
<1>6. DOMAIN queue' = DOMAIN queue \cup {Len(queue')} /\ Len(queue') \notin DOMAIN queue
  BY <1>1, <1>3
<1> QED  BY <1>1, <1>3, <1>4, <1>5, <1>6

(***************************************************************************)
(* What the parts of a step keep of the invariant.                         *)
(***************************************************************************)

\* A stop leaves no child, and starts nothing.
LEMMA StopChildSound ==
  ASSUME RelayTypeOK, ProcsSound, StopChild
  PROVE  /\ RelayTypeOK' /\ ProcsSound'
         /\ child' = NoChild /\ ready' = FALSE /\ targets' = targets
         /\ \A s \in Slots : procs'[s] = "none" <=> procs[s] = "none"
         /\ child = NoChild => stopping' = stopping
<1>1. CASE child = NoChild
  <2>1. /\ child' = child /\ ready' = FALSE /\ targets' = targets /\ procs' = procs
        /\ stopping' = stopping
    BY <1>1 DEF StopChild
  <2> QED  BY <2>1, <1>1 DEF RelayTypeOK, ProcsSound
<1>2. CASE child # NoChild
  <2>1. /\ child' = NoChild /\ ready' = FALSE /\ targets' = targets
        /\ procs' = [procs EXCEPT ![child] = "killed"] /\ stopping' = "pending"
    BY <1>2 DEF StopChild
  <2>2. child \in Slots /\ procs[child] # "none"
    BY <1>2 DEF RelayTypeOK, ProcsSound
  <2>3. RelayTypeOK'
    BY <2>1, <2>2 DEF RelayTypeOK
  <2>4. \A s \in Slots : procs'[s] = IF s = child THEN "killed" ELSE "none"
    BY <2>1, <2>2 DEF RelayTypeOK, ProcsSound
  <2>5. ProcsSound'
    BY <2>1, <2>4 DEF ProcsSound
  <2>6. \A s \in Slots : procs'[s] = "none" <=> procs[s] = "none"
    BY <2>2, <2>4 DEF ProcsSound
  <2> QED  BY <1>2, <2>1, <2>3, <2>5, <2>6
<1> QED  BY <1>1, <1>2

\* What is known of the start underway.
LEMMA FirstSound ==
  ASSUME ProxyTypeOK, QueueSound, queue # <<>>
  PROVE  /\ first = queue[1] /\ 1 \in DOMAIN queue /\ first \in Starts
         /\ first.latest => first.valid /\ first.url = hubUrl /\ Desired
         /\ first.kind = "sync" => caller = "queued" /\ Len(queue) = 1
         /\ first.kind = "sync" => first.latest \/ quit
         /\ first.valid => caller = "idle" \/ first.kind = "sync"
<1>1. first = queue[1] /\ 1 \in DOMAIN queue /\ first \in Starts
  BY DEF ProxyTypeOK, first
<1>2. \A i \in DOMAIN queue :
        /\ queue[i].latest => queue[i].valid /\ queue[i].url = hubUrl /\ Desired
        /\ queue[i].kind = "sync" => caller = "queued" /\ i = Len(queue)
        /\ queue[i].kind = "sync" => queue[i].latest \/ quit
        /\ queue[i].valid => caller = "idle" \/ queue[i].kind = "sync"
  BY DEF QueueSound
<1> QED  BY <1>1, <1>2

\* The end of a start: the hub client is told of a relay that leads to its hub, or that
\* there is none; only a valid recovery is tried again or watched.
LEMMA EndsSound ==
  ASSUME ProxyTypeOK, ProxyInv, queue # <<>>,
         NEW result \in {"active", "inactive", "error"}, Ends(result),
         RelayTypeOK', accidents' \in Nat, UNCHANGED <<child, targets>>,
         ready' => ready \/ result = "active",
         result = "active" =>
            first.latest /\ child # NoChild /\ targets[child] = first.url,
         result # "active" /\ first.kind = "sync" => child = NoChild
  PROVE  ProxyTypeOK' /\ QueueSound' /\ PhaseSound' /\ HubSound'
<1>0. /\ QueueSound /\ HubSound /\ first = queue[1] /\ 1 \in DOMAIN queue /\ first \in Starts
      /\ first.latest => first.valid /\ first.url = hubUrl /\ Desired
      /\ first.kind = "sync" => caller = "queued" /\ Len(queue) = 1
      /\ first.kind = "sync" => first.latest \/ quit
      /\ first.valid => caller = "idle" \/ first.kind = "sync"
  BY FirstSound DEF ProxyInv
<1>1. /\ queue' \in Seq(Starts) /\ Len(queue') = Len(queue) - 1
      /\ \A i \in DOMAIN queue' : i + 1 \in DOMAIN queue /\ queue'[i] = queue[i + 1]
      /\ queue' # <<>> => first' = queue'[1] /\ 1 \in DOMAIN queue'
      /\ \A i \in DOMAIN queue' : i \in Nat \ {0}
  BY EndsQueue DEF Ends
<1>2. /\ UNCHANGED <<hubUrl, quit, changes>> /\ Desired' = Desired
      /\ watched' = IF result = "active" /\ first.valid THEN child ELSE watched
      /\ first.kind = "sync" =>
            /\ caller' = "idle" /\ hubRunning' = TRUE /\ viaProxy' = (result = "active")
            /\ retryTimer' = retryTimer
      /\ first.kind # "sync" =>
            /\ retryTimer' = (retryTimer \/ (first.valid /\ result # "active" /\ Desired))
            /\ UNCHANGED <<caller, hubRunning, viaProxy>>
  BY DEF Ends, Connects, Desired
<1>3. ProxyTypeOK'
  BY <1>1, <1>2 DEF ProxyTypeOK, RelayTypeOK
<1>4. first.kind = "sync" => DOMAIN queue' = {}
  BY <1>1, <1>0 DEF ProxyTypeOK
<1>5. QueueSound'
  <2>1. ASSUME NEW i \in DOMAIN queue'
        PROVE  /\ queue'[i].phase = "queued"
               /\ queue'[i].latest => queue'[i].valid /\ queue'[i].url = hubUrl' /\ Desired'
               /\ queue'[i].kind = "sync" => caller' = "queued" /\ i = Len(queue')
               /\ queue'[i].kind = "sync" => queue'[i].latest \/ quit'
               /\ queue'[i].valid => caller' = "idle" \/ queue'[i].kind = "sync"
    <3>1. i + 1 \in DOMAIN queue /\ queue'[i] = queue[i + 1] /\ i + 1 # 1 /\ i \in Nat
      BY <1>1
    <3>2. first.kind # "sync"
      BY <1>4, <1>1
    <3>3. Len(queue) \in Nat
      BY DEF ProxyTypeOK
    <3> QED  BY <3>1, <3>2, <3>3, <1>1, <1>2, <1>0 DEF QueueSound
  <2>2. retryTimer' => Desired'
    BY <1>2, <1>0 DEF QueueSound, ProxyTypeOK
  <2>3. ASSUME caller' # "idle"  PROVE ~retryTimer' /\ watched' = NoChild
    <3>1. first.kind # "sync" /\ ~first.valid /\ caller # "idle"
      BY <2>3, <1>2, <1>0
    <3> QED  BY <3>1, <1>2, <1>0 DEF QueueSound, ProxyTypeOK
  <2> QED  BY <2>1, <2>2, <2>3 DEF QueueSound
<1>6. PhaseSound'
  <2>1. queue' # <<>> => first'.phase = "queued"
    <3>1. queue' # <<>> => first' = queue[2] /\ 2 \in DOMAIN queue
      BY <1>1
    <3> QED  BY <3>1, <1>0 DEF QueueSound
  <2> QED  BY <2>1 DEF PhaseSound
<1>7. HubSound'
  <2>1. (hubRunning' => caller' = "idle") /\ (caller' = "stopping" => hubUrl' = Direct)
    BY <1>2, <1>0 DEF HubSound
  <2>2. ~Desired' => child' = NoChild
    BY <1>2, <1>0 DEF HubSound
  <2>3. hubRunning' /\ ~viaProxy' =>
           ~retryTimer' /\ watched' = NoChild /\ \A i \in DOMAIN queue' : ~queue'[i].valid
    <3>1. CASE first.kind = "sync"
      BY <3>1, <1>1, <1>2, <1>4, <1>0 DEF QueueSound
    <3>2. CASE first.kind # "sync"
      BY <3>2, <1>1, <1>2, <1>0 DEF HubSound, ProxyTypeOK
    <3> QED  BY <3>1, <3>2
  <2>4. FollowsSettings'
    <3>1. ASSUME hubRunning', ready', child # NoChild
          PROVE  viaProxy' /\ targets[child] = hubUrl
      <4>1. CASE first.kind = "sync"
        BY <4>1, <3>1, <1>2, <1>0
      <4>2. CASE first.kind # "sync" /\ result = "active"
        BY <4>2, <3>1, <1>2, <1>0 DEF HubSound
      <4>3. CASE first.kind # "sync" /\ result # "active"
        BY <4>3, <3>1, <1>2, <1>0 DEF HubSound, FollowsSettings, Active
      <4> QED  BY <4>1, <4>2, <4>3
    <3> QED  BY <3>1, <1>2 DEF FollowsSettings, Active
  <2> QED  BY <2>1, <2>2, <2>3, <2>4 DEF HubSound
<1> QED  BY <1>3, <1>5, <1>6, <1>7

\* The step to another phase, or one beside the queue, when there is no child after it
\* or one that does not serve yet; a recovery may be scheduled for a relay that was
\* watched.
LEMMA GoesSound ==
  ASSUME ProxyTypeOK, ProxyInv, RelayTypeOK', accidents' \in Nat,
         UNCHANGED <<app, changes>>,
         watched' \in {watched, NoChild}, retryTimer' \in BOOLEAN,
         retryTimer' => retryTimer \/ (watched # NoChild /\ Desired),
         child' = NoChild \/ (ready' => ready /\ child' = child /\ targets' = targets),
         child' = NoChild \/ Desired,
         \/ UNCHANGED queue
         \/ /\ queue # <<>>
            /\ \E phase \in {"stopping", "writing", "listening", "leaving"},
                  slot \in Slots \cup {NoChild}, result \in {"inactive", "error"} :
                  Goes(phase, slot, result)
  PROVE  ProxyTypeOK' /\ QueueSound' /\ HubSound'
<1>0. QueueSound /\ HubSound
  BY DEF ProxyInv
<1>1. /\ queue' \in Seq(Starts) /\ Len(queue') = Len(queue) /\ DOMAIN queue' = DOMAIN queue
      /\ \A i \in DOMAIN queue :
            /\ i # 1 => queue'[i] = queue[i]
            /\ queue'[i].latest = queue[i].latest /\ queue'[i].valid = queue[i].valid
            /\ queue'[i].url = queue[i].url /\ queue'[i].kind = queue[i].kind
  <2>1. CASE UNCHANGED queue
    BY <2>1 DEF ProxyTypeOK
  <2>2. ASSUME queue # <<>>,
               NEW phase \in {"stopping", "writing", "listening", "leaving"},
               NEW slot \in Slots \cup {NoChild}, NEW result \in {"inactive", "error"},
               Goes(phase, slot, result)
        PROVE  <1>1!:
    <3>1. /\ queue' \in Seq(Starts) /\ Len(queue') = Len(queue) /\ DOMAIN queue' = DOMAIN queue
          /\ \A i \in DOMAIN queue : i # 1 => queue'[i] = queue[i]
          /\ queue'[1].latest = queue[1].latest /\ queue'[1].valid = queue[1].valid
          /\ queue'[1].url = queue[1].url /\ queue'[1].kind = queue[1].kind
      BY <2>2, GoesQueue
    <3>2. \A i \in DOMAIN queue :
            /\ queue'[i].latest = queue[i].latest /\ queue'[i].valid = queue[i].valid
            /\ queue'[i].url = queue[i].url /\ queue'[i].kind = queue[i].kind
      BY <3>1 DEF ProxyTypeOK
    <3> QED  BY <3>1, <3>2
  <2> QED  BY <2>1, <2>2
<1>2. /\ UNCHANGED <<hubUrl, caller, hubRunning, viaProxy, quit, changes>>
      /\ Desired' = Desired
  BY DEF app, Desired
<1>3. ProxyTypeOK'
  BY <1>1, <1>2 DEF ProxyTypeOK
<1>4. QueueSound'
  BY <1>0, <1>1, <1>2 DEF QueueSound
<1>5. HubSound'
  <2>1. hubRunning' /\ ~viaProxy' =>
           ~retryTimer' /\ watched' = NoChild /\ \A i \in DOMAIN queue' : ~queue'[i].valid
    BY <1>0, <1>1, <1>2 DEF HubSound
  <2>2. FollowsSettings'
    BY <1>0, <1>2 DEF HubSound, FollowsSettings, Active
  <2> QED  BY <2>1, <2>2, <1>0, <1>2 DEF HubSound
<1> QED  BY <1>3, <1>4, <1>5

\* A stop from outside does not disturb what holds at the phase of a start.
LEMMA PhaseKept ==
  ASSUME ProxyTypeOK, ProcsSound, PhaseSound, StopChild \/ UNCHANGED relay,
         queue' # <<>> =>
            \/ first'.phase = "queued"
            \/ /\ queue # <<>> /\ first'.phase = first.phase
               /\ first'.slot = first.slot /\ first'.url = first.url
  PROVE  PhaseSound'
<1>1. CASE StopChild
  BY <1>1, StopChildSound DEF PhaseSound, ProxyTypeOK
<1>2. CASE UNCHANGED relay
  BY <1>2 DEF PhaseSound, relay
<1> QED  BY <1>1, <1>2

(***************************************************************************)
(* The actions, one lemma each.                                            *)
(***************************************************************************)

\* What is queued is made invalid, and a new start is the last and the only valid one.
LEMMA ChangeHubSound ==
  ASSUME ProxyTypeOK, ProxyInv, NEW url \in Urls, ChangeHub(url)
  PROVE  ProxyTypeOK' /\ ProxyInv'
<1>0. ProcsSound /\ QueueSound /\ PhaseSound /\ HubSound
  BY DEF ProxyInv
<1>1. /\ caller = "idle" /\ ~quit /\ hubUrl' = url /\ hubRunning' = FALSE
      /\ UNCHANGED <<viaProxy, quit, accidents>> /\ changes' = changes + 1
      /\ retryTimer' = FALSE /\ watched' = NoChild
  BY DEF ChangeHub, ClearRecovery
<1>2. \A i \in DOMAIN queue : queue[i].kind # "sync"
  BY <1>0, <1>1 DEF QueueSound
<1>3. /\ DOMAIN Invalid = DOMAIN queue /\ Invalid \in Seq(Starts) /\ Len(Invalid) = Len(queue)
      /\ \A i \in DOMAIN queue :
            /\ Invalid[i].phase = queue[i].phase /\ Invalid[i].slot = queue[i].slot
            /\ Invalid[i].url = queue[i].url /\ Invalid[i].kind = queue[i].kind
            /\ ~Invalid[i].latest /\ ~Invalid[i].valid
  BY OldStarts
<1>4. queue # <<>> => first = queue[1] /\ 1 \in DOMAIN queue
  BY DEF first, ProxyTypeOK
<1>5. hubUrl' \in Urls /\ changes' \in Nat
  BY <1>1 DEF ProxyTypeOK
<1>6. CASE url = Direct
  <2>1. caller' = "stopping" /\ StopChild /\ queue' = Invalid
    BY <1>6 DEF ChangeHub
  <2>2. RelayTypeOK' /\ ProcsSound' /\ child' = NoChild /\ ready' = FALSE
    BY <2>1, <1>0, StopChildSound DEF ProxyTypeOK
  <2>3. ProxyTypeOK'
    <3>1. Invalid \in Seq(Starts)
      BY <1>3
    <3> QED  BY <3>1, <2>1, <2>2, <1>1, <1>5 DEF ProxyTypeOK
  <2>4. QueueSound'
    BY <2>1, <1>0, <1>1, <1>2, <1>3 DEF QueueSound
  <2>5. queue' # <<>> => /\ queue # <<>> /\ first'.phase = first.phase
                         /\ first'.slot = first.slot /\ first'.url = first.url
    BY <2>1, <1>3, <1>4 DEF first, ProxyTypeOK
  <2>6. PhaseSound'
    BY <2>1, <2>5, <1>0, PhaseKept
  <2>7. HubSound'
    BY <2>1, <2>2, <1>1, <1>3, <1>6 DEF HubSound, FollowsSettings
  <2> QED  BY <2>2, <2>3, <2>4, <2>6, <2>7 DEF ProxyInv
<1>7. CASE url # Direct
  <2>1. /\ caller' = "queued" /\ queue' = Append(Invalid, Start("sync", url))
        /\ UNCHANGED <<procs, targets, child, ready, stopping>> /\ UNCHANGED relay
    BY <1>7 DEF ChangeHub, relay
  <2>2. /\ queue' \in Seq(Starts) /\ queue' # <<>> /\ first' = queue'[1]
        /\ queue'[Len(queue')] = Start("sync", url)
        /\ DOMAIN queue' = DOMAIN queue \cup {Len(queue')}
        /\ \A i \in DOMAIN queue : queue'[i] = Invalid[i]
        /\ queue = <<>> => Len(queue') = 1
    BY <2>1, <1>3, AddsQueue
  <2>3. ProxyTypeOK' /\ ProcsSound'
    <3>1. queue' \in Seq(Starts)
      BY <2>2
    <3>2. RelayTypeOK' /\ ProcsSound'
      BY <2>1, <1>0 DEF ProxyTypeOK, RelayTypeOK, ProcsSound
    <3> QED  BY <3>1, <3>2, <2>1, <1>1, <1>5 DEF ProxyTypeOK
  <2>4. QueueSound'
    BY <2>1, <2>2, <1>0, <1>1, <1>2, <1>3, <1>7 DEF QueueSound, Start, Desired
  <2>5. \/ first'.phase = "queued"
        \/ /\ queue # <<>> /\ first'.phase = first.phase
           /\ first'.slot = first.slot /\ first'.url = first.url
    <3>1. CASE queue = <<>>
      BY <3>1, <2>2 DEF Start
    <3>2. CASE queue # <<>>
      <4>1. first' = Invalid[1]
        BY <3>2, <2>2, <1>4
      <4> QED  BY <4>1, <3>2, <1>3, <1>4
    <3> QED  BY <3>1, <3>2
  <2>6. PhaseSound'
    BY <2>1, <2>5, <1>0, PhaseKept
  <2>7. HubSound'
    BY <2>1, <1>1, <1>7 DEF HubSound, FollowsSettings, Desired
  <2> QED  BY <2>3, <2>4, <2>6, <2>7 DEF ProxyInv
<1> QED  BY <1>6, <1>7

\* The hub client is started with a direct address; there is no child.
LEMMA StoppedSound ==
  ASSUME ProxyTypeOK, ProxyInv, Stopped
  PROVE  ProxyTypeOK' /\ ProxyInv'
<1>0. ProcsSound /\ QueueSound /\ PhaseSound /\ HubSound
  BY DEF ProxyInv
<1>1. /\ caller = "stopping" /\ caller' = "idle" /\ hubRunning' = TRUE /\ viaProxy' = FALSE
      /\ UNCHANGED <<procs, targets, child, ready, stopping, retryTimer, watched, queue,
                     hubUrl, quit, changes, accidents>>
  BY DEF Stopped, Connects, relay, recovery
<1>2. ~Desired /\ child = NoChild /\ ~retryTimer /\ watched = NoChild
      /\ \A i \in DOMAIN queue : ~queue[i].valid /\ queue[i].kind # "sync"
  BY <1>0, <1>1 DEF HubSound, QueueSound, Desired
<1>3. ProxyTypeOK' /\ ProcsSound'
  BY <1>0, <1>1 DEF ProxyTypeOK, RelayTypeOK, ProcsSound
<1>4. QueueSound'
  BY <1>0, <1>1, <1>2 DEF QueueSound, Desired
<1>5. PhaseSound'
  BY <1>0, <1>1 DEF PhaseSound, first
<1>6. HubSound'
  BY <1>0, <1>1, <1>2 DEF HubSound, FollowsSettings, Active, Desired
<1> QED  BY <1>3, <1>4, <1>5, <1>6 DEF ProxyInv

\* Everything is stopped or made invalid; the caller may still wait.
LEMMA QuitSound ==
  ASSUME ProxyTypeOK, ProxyInv, Quit
  PROVE  ProxyTypeOK' /\ ProxyInv'
<1>0. ProcsSound /\ QueueSound /\ PhaseSound /\ HubSound
  BY DEF ProxyInv
<1>1. /\ quit' = TRUE /\ hubRunning' = FALSE /\ retryTimer' = FALSE /\ watched' = NoChild
      /\ StopChild /\ queue' = Invalid
      /\ UNCHANGED <<hubUrl, caller, viaProxy, changes, accidents>>
  BY DEF Quit, ClearRecovery
<1>2. RelayTypeOK' /\ ProcsSound' /\ child' = NoChild /\ ready' = FALSE
  BY <1>0, <1>1, StopChildSound DEF ProxyTypeOK
<1>3. /\ DOMAIN Invalid = DOMAIN queue /\ Invalid \in Seq(Starts) /\ Len(Invalid) = Len(queue)
      /\ \A i \in DOMAIN queue :
            /\ Invalid[i].phase = queue[i].phase /\ Invalid[i].slot = queue[i].slot
            /\ Invalid[i].url = queue[i].url /\ Invalid[i].kind = queue[i].kind
            /\ ~Invalid[i].latest /\ ~Invalid[i].valid
  BY OldStarts
<1>4. ProxyTypeOK'
  BY <1>1, <1>2, <1>3 DEF ProxyTypeOK
<1>5. QueueSound'
  BY <1>0, <1>1, <1>3 DEF QueueSound
<1>6. PhaseSound'
  <2>1. queue' # <<>> => /\ queue # <<>> /\ first'.phase = first.phase
                         /\ first'.slot = first.slot /\ first'.url = first.url
    BY <1>1, <1>3 DEF first, ProxyTypeOK
  <2> QED  BY <2>1, <1>0, <1>1, PhaseKept
<1>7. HubSound'
  BY <1>0, <1>1, <1>2 DEF HubSound, FollowsSettings
<1> QED  BY <1>2, <1>4, <1>5, <1>6, <1>7 DEF ProxyInv

\* A start that has been superseded ends, one for the relay in use ends at once, and any
\* other begins with a stop.
LEMMA BeginsSound ==
  ASSUME ProxyTypeOK, ProxyInv, Begins
  PROVE  ProxyTypeOK' /\ ProxyInv'
<1>0. ProcsSound /\ QueueSound /\ PhaseSound /\ HubSound /\ queue # <<>> /\ RelayTypeOK
  BY DEF ProxyInv, Begins, Underway, ProxyTypeOK
<1>1. /\ first.latest => first.valid /\ first.url = hubUrl /\ Desired
      /\ first.kind = "sync" => first.latest \/ quit
  BY <1>0, FirstSound
<1>2. accidents' \in Nat
  BY DEF Begins, ProxyTypeOK
<1>3. CASE ~first.latest /\ UNCHANGED relay /\ Ends("inactive")
  <2>1. RelayTypeOK' /\ ProcsSound' /\ UNCHANGED <<child, targets, ready>>
    BY <1>0, <1>3 DEF relay, RelayTypeOK, ProcsSound
  <2>2. first.kind = "sync" => child = NoChild
    BY <1>0, <1>1, <1>3 DEF HubSound, Desired
  <2> QED  BY <1>0, <1>2, <1>3, <2>1, <2>2, EndsSound DEF ProxyInv
<1>4. CASE first.latest /\ Active /\ targets[child] = first.url /\ UNCHANGED relay /\ Ends("active")
  <2>1. RelayTypeOK' /\ ProcsSound' /\ UNCHANGED <<child, targets, ready>>
    BY <1>0, <1>4 DEF relay, RelayTypeOK, ProcsSound
  <2>2. child # NoChild
    BY <1>4 DEF Active
  <2> QED  BY <1>0, <1>2, <1>4, <2>1, <2>2, EndsSound DEF ProxyInv
<1>5. CASE StopChild /\ Goes("stopping", NoChild, "inactive") /\ UNCHANGED <<recovery, app, changes>>
  <2>1. RelayTypeOK' /\ ProcsSound' /\ child' = NoChild /\ ready' = FALSE
    BY <1>0, <1>5, StopChildSound
  <2>2. ProxyTypeOK' /\ QueueSound' /\ HubSound'
    <3>1. watched' = watched /\ retryTimer' = retryTimer /\ retryTimer' \in BOOLEAN
      BY <1>5 DEF recovery, ProxyTypeOK
    <3> QED  BY <1>0, <1>2, <1>5, <2>1, <3>1, GoesSound
  <2>3. PhaseSound'
    BY <1>0, <1>5, <2>1, GoesQueue DEF PhaseSound
  <2> QED  BY <2>1, <2>2, <2>3 DEF ProxyInv
<1> QED  BY <1>3, <1>4, <1>5 DEF Begins

\* Nothing is left of the last relay when its stop has succeeded.
LEMMA ChildStoppedSound ==
  ASSUME ProxyTypeOK, ProxyInv, ChildStopped
  PROVE  ProxyTypeOK' /\ ProxyInv'
<1>0. /\ ProcsSound /\ QueueSound /\ PhaseSound /\ HubSound /\ RelayTypeOK
      /\ queue # <<>> /\ first.phase = "stopping" /\ child = NoChild
  BY DEF ProxyInv, ChildStopped, Underway, ProxyTypeOK, PhaseSound
<1>1. /\ RelayTypeOK' /\ ProcsSound' /\ accidents' \in Nat
      /\ UNCHANGED <<procs, child, targets, ready, stopping>>
  BY <1>0 DEF ChildStopped, relay, RelayTypeOK, ProcsSound, ProxyTypeOK
<1>2. ASSUME NEW result \in {"inactive", "error"}, Ends(result)
      PROVE  ProxyTypeOK' /\ ProxyInv'
  BY <1>0, <1>1, <1>2, EndsSound DEF ProxyInv
<1>3. CASE /\ stopping # "failed" /\ stopping = "done"
           /\ Goes("writing", NoChild, "inactive") /\ UNCHANGED <<recovery, app, changes>>
  <2>1. ProxyTypeOK' /\ QueueSound' /\ HubSound'
    <3>1. watched' = watched /\ retryTimer' = retryTimer /\ retryTimer' \in BOOLEAN
      BY <1>3 DEF recovery, ProxyTypeOK
    <3> QED  BY <1>0, <1>1, <1>3, <3>1, GoesSound
  <2>2. \A s \in Slots : procs[s] = "none"
    BY <1>0, <1>3 DEF ProcsSound, RelayTypeOK, Slots, NoChild
  <2>3. PhaseSound'
    <3>1. first'.phase = "writing"
      BY <1>0, <1>3, GoesQueue
    <3> QED  BY <3>1, <2>2, <1>0, <1>1, <1>3 DEF PhaseSound
  <2> QED  BY <1>1, <2>1, <2>3 DEF ProxyInv
<1> QED  BY <1>2, <1>3 DEF ChildStopped

\* A process is started where there is none, and becomes the child.
LEMMA FileWrittenSound ==
  ASSUME ProxyTypeOK, ProxyInv, FileWritten
  PROVE  ProxyTypeOK' /\ ProxyInv'
<1>0. /\ ProcsSound /\ QueueSound /\ PhaseSound /\ HubSound /\ RelayTypeOK
      /\ queue # <<>> /\ first.phase = "writing" /\ child = NoChild /\ stopping = "done"
      /\ \A s \in Slots : procs[s] = "none"
  BY DEF ProxyInv, FileWritten, Underway, ProxyTypeOK, PhaseSound
<1>1. accidents' \in Nat /\ ~ready
  BY <1>0 DEF FileWritten, ProxyTypeOK, ProcsSound, RelayTypeOK
<1>2. CASE UNCHANGED relay /\ Ends("inactive")
  <2>1. RelayTypeOK' /\ ProcsSound' /\ UNCHANGED <<child, targets, ready>>
    BY <1>0, <1>2 DEF relay, RelayTypeOK, ProcsSound
  <2> QED  BY <1>0, <1>1, <1>2, <2>1, EndsSound DEF ProxyInv
<1>3. CASE first.latest /\ Spawn
  <2>1. PICK s \in Slots :
          /\ procs' = [procs EXCEPT ![s] = "starting"] /\ child' = s
          /\ targets' = [targets EXCEPT ![s] = first.url]
          /\ Goes("listening", s, "inactive")
          /\ UNCHANGED <<ready, stopping, recovery, app, changes>>
    <3>1. procs[1] = "none" /\ 1 \in Slots /\ \A r \in 1..(1 - 1) : procs[r] # "none"
      BY <1>0 DEF Slots
    <3>2. \E s \in Slots : procs[s] = "none" /\ \A r \in 1..(s - 1) : procs[r] # "none"
      BY <3>1
    <3> QED  BY <3>2, <1>3 DEF Spawn
  <2>2. first.url \in Urls /\ Desired /\ s # NoChild
    <3>1. first \in Starts
      BY <1>0, FirstSound
    <3> QED  BY <3>1, <1>0, <1>3, FirstSound DEF Starts, Slots, NoChild
  <2>3. RelayTypeOK'
    BY <1>0, <2>1, <2>2 DEF RelayTypeOK
  <2>4. \A r \in Slots : procs'[r] = IF r = s THEN "starting" ELSE "none"
    BY <1>0, <2>1 DEF RelayTypeOK
  <2>5. ProcsSound'
    BY <1>0, <1>1, <2>1, <2>2, <2>4 DEF ProcsSound
  <2>6. ProxyTypeOK' /\ QueueSound' /\ HubSound'
    <3>1. watched' = watched /\ retryTimer' = retryTimer /\ retryTimer' \in BOOLEAN /\ ~ready'
      BY <1>1, <2>1 DEF recovery, ProxyTypeOK
    <3>2. Goes("listening", s, "inactive") /\ UNCHANGED <<app, changes>>
      BY <2>1
    <3> QED  BY <1>0, <1>1, <2>2, <2>3, <3>1, <3>2, GoesSound
  <2>7. PhaseSound'
    <3>1. first'.phase = "listening" /\ first'.slot = s /\ first'.url = first.url
      BY <1>0, <2>1, GoesQueue
    <3>2. targets'[s] = first.url
      BY <2>1 DEF ProxyTypeOK, RelayTypeOK
    <3> QED  BY <3>1, <3>2, <2>1, <2>4, <1>1 DEF PhaseSound
  <2> QED  BY <2>5, <2>6, <2>7 DEF ProxyInv
<1> QED  BY <1>2, <1>3 DEF FileWritten

\* No process is started.
LEMMA NotSpawnedSound ==
  ASSUME ProxyTypeOK, ProxyInv, NotSpawned
  PROVE  ProxyTypeOK' /\ ProxyInv'
<1>0. /\ ProcsSound /\ PhaseSound /\ RelayTypeOK
      /\ queue # <<>> /\ first.phase = "writing" /\ child = NoChild
  BY DEF ProxyInv, NotSpawned, Underway, ProxyTypeOK, PhaseSound
<1>1. /\ RelayTypeOK' /\ ProcsSound' /\ UNCHANGED <<child, targets, ready>>
  BY <1>0 DEF NotSpawned, relay, RelayTypeOK, ProcsSound
<1>2. accidents' \in Nat /\ Ends("error")
  BY DEF NotSpawned, Accident, ProxyTypeOK
<1> QED  BY <1>0, <1>1, <1>2, EndsSound DEF ProxyInv

\* The start ends when its process, if there was a child, is stopped.
LEMMA LeavesSound ==
  ASSUME ProxyTypeOK, ProxyInv, Leaves
  PROVE  ProxyTypeOK' /\ ProxyInv'
<1>0. /\ ProcsSound /\ QueueSound /\ PhaseSound /\ RelayTypeOK
      /\ queue # <<>> /\ first.phase = "leaving" /\ child = NoChild
  BY DEF ProxyInv, Leaves, Underway, ProxyTypeOK, PhaseSound
<1>1. /\ RelayTypeOK' /\ ProcsSound' /\ accidents' \in Nat /\ UNCHANGED <<child, targets, ready>>
  BY <1>0 DEF Leaves, relay, RelayTypeOK, ProcsSound, ProxyTypeOK
<1>2. PICK result \in {"inactive", "error"} : Ends(result)
  <2>1. first.result \in {"inactive", "error"}
    BY <1>0, FirstSound DEF Starts
  <2> QED  BY <2>1 DEF Leaves
<1> QED  BY <1>0, <1>1, <1>2, EndsSound DEF ProxyInv

\* The process of a start that is still wanted serves; any other is stopped.
LEMMA ListensSound ==
  ASSUME ProxyTypeOK, ProxyInv, Listens
  PROVE  ProxyTypeOK' /\ ProxyInv'
<1>0. /\ ProcsSound /\ QueueSound /\ PhaseSound /\ HubSound /\ RelayTypeOK
      /\ queue # <<>> /\ first.phase = "listening" /\ first.slot \in Slots
      /\ targets[first.slot] = first.url
  BY DEF ProxyInv, Listens, Underway, ProxyTypeOK, PhaseSound
<1>1. accidents' \in Nat
  BY DEF Listens, ProxyTypeOK
<1>2. CASE /\ first.latest /\ child = first.slot
           /\ ready' = TRUE /\ procs' = [procs EXCEPT ![child] = "serving"]
           /\ UNCHANGED <<child, targets, stopping>> /\ Ends("active")
  <2>1. child # NoChild /\ targets[child] = first.url
    BY <1>0, <1>2 DEF Slots, NoChild
  <2>2. RelayTypeOK'
    BY <1>0, <1>2 DEF RelayTypeOK
  <2>3. \A s \in Slots : procs'[s] = IF s = child THEN "serving" ELSE procs[s]
    BY <1>0, <1>2 DEF RelayTypeOK
  <2>4. ProcsSound'
    BY <1>0, <1>2, <2>1, <2>3 DEF ProcsSound
  <2> QED  BY <1>0, <1>1, <1>2, <2>1, <2>2, <2>4, EndsSound DEF ProxyInv
<1>3. CASE StopChild /\ Goes("leaving", NoChild, "inactive") /\ UNCHANGED <<recovery, app, changes>>
  <2>1. RelayTypeOK' /\ ProcsSound' /\ child' = NoChild /\ ready' = FALSE
    BY <1>0, <1>3, StopChildSound
  <2>2. ProxyTypeOK' /\ QueueSound' /\ HubSound'
    <3>1. watched' = watched /\ retryTimer' = retryTimer /\ retryTimer' \in BOOLEAN
      BY <1>3 DEF recovery, ProxyTypeOK
    <3> QED  BY <1>0, <1>1, <1>3, <2>1, <3>1, GoesSound
  <2>3. PhaseSound'
    BY <1>0, <1>3, <2>1, GoesQueue DEF PhaseSound
  <2> QED  BY <2>1, <2>2, <2>3 DEF ProxyInv
<1> QED  BY <1>2, <1>3 DEF Listens

\* A process that does not say that it listens is stopped.
LEMMA StartTimeoutSound ==
  ASSUME ProxyTypeOK, ProxyInv, StartTimeout
  PROVE  ProxyTypeOK' /\ ProxyInv'
<1>0. /\ ProcsSound /\ QueueSound /\ PhaseSound /\ HubSound /\ RelayTypeOK /\ queue # <<>>
  BY DEF ProxyInv, StartTimeout, Underway, ProxyTypeOK
<1>1. accidents' \in Nat
  BY DEF StartTimeout, Accident, ProxyTypeOK
<1>2. StopChild /\ Goes("leaving", NoChild, "error") /\ UNCHANGED <<recovery, app, changes>>
  BY DEF StartTimeout
<1>3. RelayTypeOK' /\ ProcsSound' /\ child' = NoChild /\ ready' = FALSE
  BY <1>0, <1>2, StopChildSound
<1>4. ProxyTypeOK' /\ QueueSound' /\ HubSound'
  <2>1. watched' = watched /\ retryTimer' = retryTimer /\ retryTimer' \in BOOLEAN
    BY <1>2 DEF recovery, ProxyTypeOK
  <2> QED  BY <1>0, <1>1, <1>2, <1>3, <2>1, GoesSound
<1>5. PhaseSound'
  BY <1>0, <1>2, <1>3, GoesQueue DEF PhaseSound
<1> QED  BY <1>3, <1>4, <1>5 DEF ProxyInv

\* A recovery supersedes what is queued; nobody waits for it.
LEMMA RetryFiresSound ==
  ASSUME ProxyTypeOK, ProxyInv, RetryFires
  PROVE  ProxyTypeOK' /\ ProxyInv'
<1>0. ProcsSound /\ QueueSound /\ PhaseSound /\ HubSound
  BY DEF ProxyInv
<1>1. /\ retryTimer /\ retryTimer' = FALSE
      /\ queue' = Append(Supersede, Start("recovery", hubUrl))
      /\ UNCHANGED <<procs, targets, child, ready, stopping, watched, hubUrl, caller, hubRunning,
                     viaProxy, quit, changes, accidents>>
      /\ UNCHANGED relay
  BY DEF RetryFires, relay, app
<1>2. Desired /\ Desired' /\ caller = "idle" /\ hubUrl \in Urls
  BY <1>0, <1>1 DEF QueueSound, Desired, ProxyTypeOK
<1>3. /\ DOMAIN Supersede = DOMAIN queue /\ Supersede \in Seq(Starts)
      /\ Len(Supersede) = Len(queue)
      /\ \A i \in DOMAIN queue :
            /\ Supersede[i].phase = queue[i].phase /\ Supersede[i].slot = queue[i].slot
            /\ Supersede[i].url = queue[i].url /\ Supersede[i].kind = queue[i].kind
            /\ ~Supersede[i].latest /\ Supersede[i].valid = queue[i].valid
  BY OldStarts
<1>4. queue # <<>> => first = queue[1] /\ 1 \in DOMAIN queue
  BY DEF first, ProxyTypeOK
<1>5. /\ queue' \in Seq(Starts) /\ queue' # <<>> /\ first' = queue'[1]
      /\ queue'[Len(queue')] = Start("recovery", hubUrl)
      /\ DOMAIN queue' = DOMAIN queue \cup {Len(queue')}
      /\ \A i \in DOMAIN queue : queue'[i] = Supersede[i]
      /\ queue = <<>> => Len(queue') = 1
  BY <1>1, <1>2, <1>3, AddsQueue
<1>6. ProxyTypeOK' /\ ProcsSound'
  <2>1. queue' \in Seq(Starts)
    BY <1>5
  <2>2. RelayTypeOK' /\ ProcsSound'
    BY <1>0, <1>1 DEF ProxyTypeOK, RelayTypeOK, ProcsSound
  <2> QED  BY <2>1, <2>2, <1>1 DEF ProxyTypeOK
<1>7. QueueSound'
  <2>1. \A i \in DOMAIN queue : queue[i].kind # "sync"
    BY <1>0, <1>2 DEF QueueSound
  <2> QED  BY <2>1, <1>0, <1>1, <1>2, <1>3, <1>5 DEF QueueSound, Start
<1>8. PhaseSound'
  <2>1. CASE queue = <<>>
    BY <2>1, <1>0, <1>1, <1>5, PhaseKept DEF Start
  <2>2. CASE queue # <<>>
    <3>1. first' = Supersede[1]
      BY <2>2, <1>4, <1>5
    <3> QED  BY <3>1, <2>2, <1>0, <1>1, <1>3, <1>4, PhaseKept
  <2> QED  BY <2>1, <2>2
<1>9. HubSound'
  <2>1. ~(hubRunning /\ ~viaProxy)
    BY <1>0, <1>1 DEF HubSound
  <2> QED  BY <2>1, <1>0, <1>1, <1>2 DEF HubSound, FollowsSettings, Active
<1> QED  BY <1>6, <1>7, <1>8, <1>9 DEF ProxyInv

\* A process that exits is no child any more; a start that waited for it ends.
LEMMA ExitsSound ==
  ASSUME ProxyTypeOK, ProxyInv, NEW s \in Slots, Exits(s)
  PROVE  ProxyTypeOK' /\ ProxyInv'
<1>0. /\ ProcsSound /\ QueueSound /\ PhaseSound /\ HubSound /\ RelayTypeOK
      /\ procs[s] # "none" /\ s # NoChild
  BY DEF ProxyInv, Exits, ProxyTypeOK, Slots, NoChild
<1>1. /\ procs' = [procs EXCEPT ![s] = "none"]
      /\ IF child = s THEN child' = NoChild /\ ready' = FALSE ELSE UNCHANGED <<child, ready>>
      /\ stopping' = IF procs[s] = "killed" THEN "done" ELSE stopping
      /\ targets' = targets /\ UNCHANGED <<app, changes>>
  BY DEF Exits
<1>2. accidents' \in Nat
  BY DEF Exits, Accident, ProxyTypeOK
<1>3. /\ watched' \in {watched, NoChild} /\ retryTimer' \in BOOLEAN
      /\ retryTimer' => retryTimer \/ (watched # NoChild /\ Desired)
  <2>1. CASE watched = s
    BY <2>1, <1>0 DEF Exits, Desired, ProxyTypeOK
  <2>2. CASE watched # s
    BY <2>2 DEF Exits, recovery, ProxyTypeOK
  <2> QED  BY <2>1, <2>2
<1>4. RelayTypeOK'
  BY <1>0, <1>1 DEF RelayTypeOK
<1>5. \A r \in Slots : procs'[r] = "none"
  BY <1>0, <1>1 DEF RelayTypeOK, ProcsSound
<1>6. child' = NoChild
  BY <1>0, <1>1 DEF RelayTypeOK, ProcsSound
<1>7. ProcsSound'
  BY <1>0, <1>1, <1>5, <1>6 DEF ProcsSound
<1>8. CASE Underway("listening") /\ first.slot = s /\ Goes("leaving", NoChild, "error")
  <2>1. queue # <<>>
    BY <1>8 DEF Underway
  <2>2. ProxyTypeOK' /\ QueueSound' /\ HubSound'
    BY <1>1, <1>2, <1>3, <1>4, <1>6, <1>8, <2>1, GoesSound
  <2>3. PhaseSound'
    BY <1>6, <1>8, <2>1, GoesQueue DEF PhaseSound
  <2> QED  BY <1>7, <2>2, <2>3 DEF ProxyInv
<1>9. CASE ~(Underway("listening") /\ first.slot = s) /\ UNCHANGED queue
  <2>1. ProxyTypeOK' /\ QueueSound' /\ HubSound'
    BY <1>1, <1>2, <1>3, <1>4, <1>6, <1>9, GoesSound
  <2>2. PhaseSound'
    <3>1. queue' # <<>> => queue # <<>> /\ first' = first
      BY <1>9 DEF first
    <3>2. queue # <<>> => first.phase # "writing" /\ first.phase # "listening"
      BY <1>0, <1>9 DEF PhaseSound, Underway
    <3> QED  BY <3>1, <3>2, <1>6 DEF PhaseSound
  <2> QED  BY <1>7, <2>1, <2>2 DEF ProxyInv
<1> QED  BY <1>8, <1>9 DEF Exits

\* A process that was killed for good is still there.
LEMMA StopTimeoutSound ==
  ASSUME ProxyTypeOK, ProxyInv, NEW s \in Slots, StopTimeout(s)
  PROVE  ProxyTypeOK' /\ ProxyInv'
<1>0. ProcsSound /\ QueueSound /\ PhaseSound /\ HubSound /\ RelayTypeOK
  BY DEF ProxyInv, ProxyTypeOK
<1>1. /\ procs[s] = "killed" /\ procs' = [procs EXCEPT ![s] = "forced"] /\ stopping' = "failed"
      /\ UNCHANGED <<targets, child, ready, recovery, queue, app, changes>>
      /\ child = NoChild
  BY <1>0 DEF StopTimeout, ProcsSound
<1>2. accidents' \in Nat /\ RelayTypeOK'
  BY <1>0, <1>1 DEF StopTimeout, Accident, ProxyTypeOK, RelayTypeOK
<1>3. \A r \in Slots : procs'[r] = IF r = s THEN "forced" ELSE "none"
  BY <1>0, <1>1 DEF ProcsSound, RelayTypeOK
<1>4. ProcsSound'
  BY <1>0, <1>1, <1>3 DEF ProcsSound
<1>5. ProxyTypeOK' /\ QueueSound' /\ HubSound'
  <2>1. watched' = watched /\ retryTimer' = retryTimer /\ retryTimer' \in BOOLEAN
    BY <1>1 DEF recovery, ProxyTypeOK
  <2> QED  BY <1>0, <1>1, <1>2, <2>1, GoesSound
<1>6. PhaseSound'
  BY <1>0, <1>1, <1>3 DEF PhaseSound, first
<1> QED  BY <1>4, <1>5, <1>6 DEF ProxyInv

(***************************************************************************)
(* The theorems, about the client with either helper.                      *)
(***************************************************************************)

\* What the relay's properties say follows from the invariant.
LEMMA InvariantImplies ==
  ASSUME ProxyTypeOK, ProxyInv
  PROVE  OneProcess /\ FollowsSettings
<1>1. FollowsSettings
  BY DEF ProxyInv, HubSound
<1>2. OneProcess
  <2> DEFINE running == {s \in Slots : procs[s] # "none"}
  <2>1. CASE running = {}
    BY <2>1, FS_EmptySet DEF OneProcess
  <2>2. ASSUME NEW s \in running  PROVE OneProcess
    <3>1. running = {s}
      BY <2>2 DEF ProxyInv, ProcsSound
    <3>2. Cardinality(running) = 1
      BY <3>1, FS_Singleton
    <3> QED  BY <3>2 DEF OneProcess
  <2> QED  BY <2>1, <2>2
<1> QED  BY <1>1, <1>2

\* Every step of the client is one of its relay, or leaves the relay alone.
LEMMA RelaySteps ==
  ASSUME [HelpersNext]_helperVars
  PROVE  ProxyNext \/ UNCHANGED proxyVars
BY DEF HelpersNext, helperVars, OfRelay, OfWatcher, OfPaste

\* What was underway for another address or before the end starts no process.
LEMMA StartsOnlyWhenWanted ==
  ASSUME ProxyTypeOK, ProxyInv, ProxyNext \/ UNCHANGED proxyVars, hubUrl = Direct \/ quit,
         NEW s \in Slots, procs[s] = "none"
  PROVE  procs'[s] = "none"
<1>0. ProcsSound /\ QueueSound /\ RelayTypeOK /\ ~Desired
  BY DEF ProxyInv, ProxyTypeOK, Desired
<1>1. queue # <<>> => ~first.latest
  BY <1>0, FirstSound
<1>2. CASE StopChild
  BY <1>0, <1>2, StopChildSound
<1>3. CASE UNCHANGED procs
  BY <1>3
<1>4. ASSUME NEW r \in Slots, Exits(r) \/ StopTimeout(r)
      PROVE  procs'[s] = "none"
  BY <1>0, <1>4 DEF Exits, StopTimeout, RelayTypeOK
<1>5. CASE ProxyWork
  <2>1. CASE Stopped \/ NotSpawned \/ Leaves \/ RetryFires \/ ChildStopped
    BY <2>1, <1>3 DEF Stopped, NotSpawned, Leaves, RetryFires, ChildStopped, relay
  <2>2. CASE Begins \/ FileWritten \/ Listens \/ StartTimeout
    BY <2>2, <1>1, <1>2, <1>3 DEF Begins, FileWritten, Listens, StartTimeout, relay, Underway
  <2> QED  BY <1>4, <1>5, <2>1, <2>2 DEF ProxyWork
<1>6. ASSUME NEW url \in Urls, ChangeHub(url)  PROVE procs'[s] = "none"
  BY <1>2, <1>3, <1>6 DEF ChangeHub, relay
<1>7. CASE Quit
  BY <1>2, <1>7 DEF Quit
<1>8. CASE UNCHANGED proxyVars
  BY <1>8 DEF proxyVars, relay
<1> QED  BY <1>5, <1>6, <1>7, <1>8 DEF ProxyNext, Urls

\* The invariant holds at the start and is kept by every step, whichever helper the
\* client has.
THEOREM RelayInvariant == HelpersSpec => [](ProxyTypeOK /\ ProxyInv)
<1>1. HelpersInit => ProxyTypeOK /\ ProxyInv
  <2> SUFFICES ASSUME ProxyInit  PROVE ProxyTypeOK /\ ProxyInv
    BY DEF HelpersInit
  <2>1. ProxyTypeOK
    <3>1. Start("sync", hubUrl) \in Starts
      BY DEF ProxyInit, Start, Starts, Urls, NoChild
    <3>2. queue \in Seq(Starts)
      BY <3>1 DEF ProxyInit
    <3>3. RelayTypeOK
      BY DEF ProxyInit, RelayTypeOK, Urls
    <3> QED  BY <3>2, <3>3 DEF ProxyInit, ProxyTypeOK, Urls
  <2>2. ProcsSound /\ HubSound /\ PhaseSound
    BY DEF ProxyInit, ProcsSound, HubSound, PhaseSound, FollowsSettings, Desired, first, Start,
           Slots, NoChild
  <2>3. QueueSound
    BY DEF ProxyInit, QueueSound, Start, Desired
  <2> QED  BY <2>1, <2>2, <2>3 DEF ProxyInv
<1>2. ProxyTypeOK /\ ProxyInv /\ [HelpersNext]_helperVars => (ProxyTypeOK /\ ProxyInv)'
  <2> SUFFICES ASSUME ProxyTypeOK, ProxyInv, ProxyNext \/ UNCHANGED proxyVars
               PROVE  ProxyTypeOK' /\ ProxyInv'
    BY RelaySteps
  <2>1. CASE ProxyWork
    BY <2>1, StoppedSound, BeginsSound, ChildStoppedSound, FileWrittenSound, NotSpawnedSound,
       ListensSound, StartTimeoutSound, LeavesSound, RetryFiresSound, ExitsSound,
       StopTimeoutSound DEF ProxyWork
  <2>2. CASE Quit
    BY <2>2, QuitSound
  <2>3. ASSUME NEW url \in Urls, ChangeHub(url)  PROVE ProxyTypeOK' /\ ProxyInv'
    BY <2>3, ChangeHubSound
  <2>4. CASE UNCHANGED proxyVars
    BY <2>4 DEF proxyVars, relay, recovery, app, ProxyTypeOK, RelayTypeOK, ProxyInv, ProcsSound,
                QueueSound, PhaseSound, HubSound, FollowsSettings, Active, Desired, first
  <2> QED  BY <2>1, <2>2, <2>3, <2>4 DEF ProxyNext, Urls
<1> QED  BY <1>1, <1>2, PTL DEF HelpersSpec

\* The relay's process is alone: a stop that is not over, that failed or that was
\* overtaken by other starts never leaves a second one on the same port.
THEOREM OneRelay == HelpersSpec => []OneProcess
<1>1. ProxyTypeOK /\ ProxyInv => OneProcess
  BY InvariantImplies
<1> QED  BY <1>1, RelayInvariant, PTL

\* The relay in use leads to the hub of the settings, and the hub client uses it.
THEOREM RelayFollows == HelpersSpec => []FollowsSettings
<1>1. ProxyTypeOK /\ ProxyInv => FollowsSettings
  BY InvariantImplies
<1> QED  BY <1>1, RelayInvariant, PTL

\* Nothing that is underway starts a relay that is not wanted any more.
THEOREM RelayStaysStopped == HelpersSpec => StaysStopped
<1>1. ProxyTypeOK /\ ProxyInv /\ [HelpersNext]_helperVars =>
        [hubUrl = Direct \/ quit =>
            \A s \in Slots : procs[s] = "none" => procs'[s] = "none"]_proxyVars
  BY RelaySteps, StartsOnlyWhenWanted
<1> QED  BY <1>1, RelayInvariant, PTL DEF HelpersSpec, StaysStopped

-----------------------------------------------------------------------------
(***************************************************************************)
(* The process that watches the foreground.                                *)
(***************************************************************************)

Windows == [n : Nat, kind : Kinds]
Lines == [id : Nat, window : Windows]
Requests == [id : Nat, kind : {"capture", "source"}, at : Nat]

WatcherTypeOK ==
    /\ front \in Windows /\ lines \in Seq(Lines)
    /\ requestId \in Nat /\ written \in Nat /\ nextRequestId \in Nat
    /\ pending \subseteq Requests
    /\ answers \subseteq [kind : {"capture", "source"}, at : Nat, window : Windows]

\* No process, not even a new one, knows of a request that was not made, and a line
\* that says it has read a request shows a window at least as late as the request.
LinesSound ==
    /\ requestId <= nextRequestId /\ written <= nextRequestId
    /\ \A i \in DOMAIN lines : lines[i].id <= nextRequestId
    /\ \A r \in pending :
        /\ r.at <= front.n
        /\ \A i \in DOMAIN lines : r.id <= lines[i].id => r.at <= lines[i].window.n

WatcherInv == LinesSound /\ NeverOlder

\* What a line underway is made of.
LEMMA LineTypes ==
  ASSUME WatcherTypeOK
  PROVE  \A i \in DOMAIN lines : lines[i].id \in Nat /\ lines[i].window.n \in Nat
<1>1. \A i \in DOMAIN lines : lines[i] \in Lines
  BY DEF WatcherTypeOK
<1> QED  BY <1>1 DEF Lines, Windows

\* A new request is later than every line underway.
LEMMA RequestSound ==
  ASSUME WatcherTypeOK, WatcherInv, NEW kind \in {"capture", "source"}, Request(kind),
         UNCHANGED <<front, requestId, lines, answers>>
  PROVE  WatcherTypeOK' /\ WatcherInv'
<1> DEFINE new == [id |-> nextRequestId + 1, kind |-> kind, at |-> front.n]
<1>1. new \in Requests /\ pending' = pending \cup {new}
  BY DEF Request, WatcherTypeOK, Requests, Windows
<1>2. WatcherTypeOK'
  BY <1>1 DEF Request, WatcherTypeOK
<1>3. /\ requestId' <= nextRequestId' /\ written' <= nextRequestId'
      /\ \A i \in DOMAIN lines' : lines'[i].id <= nextRequestId'
  <2>1. /\ nextRequestId' = nextRequestId + 1 /\ written' = nextRequestId + 1
        /\ lines' = lines /\ requestId' = requestId
    BY DEF Request
  <2>2. /\ requestId <= nextRequestId /\ requestId \in Nat /\ nextRequestId \in Nat
        /\ \A i \in DOMAIN lines : lines[i].id <= nextRequestId
    BY DEF WatcherTypeOK, WatcherInv, LinesSound
  <2> QED  BY <2>1, <2>2, LineTypes
<1>4. ASSUME NEW r \in pending'
      PROVE  /\ r.at <= front'.n
             /\ \A i \in DOMAIN lines' : r.id <= lines'[i].id => r.at <= lines'[i].window.n
  <2>1. CASE r \in pending
    BY <2>1 DEF WatcherInv, LinesSound
  <2>2. CASE r = new
    <3>1. r.id = nextRequestId + 1 /\ r.at = front.n /\ front.n \in Nat /\ nextRequestId \in Nat
      BY <2>2 DEF WatcherTypeOK, Windows
    <3>2. \A i \in DOMAIN lines : ~(r.id <= lines[i].id)
      BY <3>1, LineTypes DEF WatcherInv, LinesSound
    <3> QED  BY <3>1, <3>2
  <2> QED  BY <1>1, <1>4, <2>1, <2>2
<1>5. NeverOlder'
  BY DEF WatcherInv, NeverOlder
<1> QED  BY <1>2, <1>3, <1>4, <1>5 DEF WatcherInv, LinesSound

\* The process writes what it sees when it has read the requests it names.
LEMMA SamplesSound ==
  ASSUME WatcherTypeOK, WatcherInv, Samples
  PROVE  WatcherTypeOK' /\ WatcherInv'
<1> DEFINE new == [id |-> requestId, window |-> front]
<1>1. new \in Lines /\ lines' = Append(lines, new) /\ new.id = requestId /\ new.window = front
  BY DEF Samples, WatcherTypeOK, Lines
<1> HIDE DEF new
<1>2. /\ lines' \in Seq(Lines) /\ DOMAIN lines' = 1..(Len(lines) + 1)
      /\ \A i \in DOMAIN lines : lines'[i] = lines[i]
      /\ lines'[Len(lines) + 1] = new /\ DOMAIN lines = 1..Len(lines) /\ Len(lines) \in Nat
  BY <1>1 DEF WatcherTypeOK
<1>3. \A i \in DOMAIN lines' : i \in DOMAIN lines \/ i = Len(lines) + 1
  BY <1>2
<1>4. WatcherTypeOK'
  BY <1>2 DEF WatcherTypeOK, Samples, requests
<1>5. LinesSound'
  BY <1>1, <1>2, <1>3 DEF LinesSound, WatcherInv, WatcherTypeOK, Samples, requests
<1>6. NeverOlder'
  BY DEF NeverOlder, WatcherInv, Samples, requests
<1> QED  BY <1>4, <1>5, <1>6 DEF WatcherInv

\* A line answers the requests it knows of, whose windows are earlier than its own.
LEMMA HearsLineSound ==
  ASSUME WatcherTypeOK, WatcherInv, HearsLine
  PROVE  WatcherTypeOK' /\ WatcherInv'
<1> DEFINE line == Head(lines)
<1>1. /\ line = lines[1] /\ 1 \in DOMAIN lines /\ line \in Lines
      /\ lines' \in Seq(Lines)
      /\ \A i \in DOMAIN lines' : i + 1 \in DOMAIN lines /\ lines'[i] = lines[i + 1]
  BY DEF HearsLine, WatcherTypeOK
<1>2. /\ pending' = pending \ Answered(line)
      /\ answers' = answers \cup
            {[kind |-> r.kind, at |-> r.at, window |-> line.window] : r \in Answered(line)}
      /\ UNCHANGED <<front, requestId, written, nextRequestId>>
  BY DEF HearsLine
<1> HIDE DEF line
<1>3. Answered(line) \subseteq pending /\ \A r \in Answered(line) : r.id <= line.id
  BY DEF Answered
<1>4. \A r \in Answered(line) : r.at <= line.window.n
  BY <1>1, <1>3 DEF WatcherInv, LinesSound
<1>5. WatcherTypeOK'
  BY <1>1, <1>2, <1>3 DEF WatcherTypeOK, Requests, Lines
<1>6. LinesSound'
  BY <1>1, <1>2, <1>3 DEF LinesSound, WatcherInv
<1>7. ASSUME NEW a \in answers'
      PROVE  a.window.n >= a.at
  <2>1. CASE a \in answers
    BY <2>1 DEF WatcherInv, NeverOlder
  <2>2. ASSUME NEW r \in Answered(line),
               a = [kind |-> r.kind, at |-> r.at, window |-> line.window]
        PROVE  a.window.n >= a.at
    BY <2>2, <1>1, <1>3, <1>4 DEF WatcherTypeOK, Requests, Lines, Windows
  <2> QED  BY <1>2, <1>7, <2>1, <2>2
<1> QED  BY <1>5, <1>6, <1>7 DEF WatcherInv, NeverOlder

\* A step that makes no request, writes no line and gives no answer, and that knows of
\* no request that was not made, keeps the invariant.
LEMMA OthersSound ==
  ASSUME WatcherTypeOK, WatcherInv,
         front' \in Windows, front'.n >= front.n, lines' \in {lines, <<>>},
         pending' \subseteq pending, answers' \subseteq answers,
         requestId' \in {0, requestId, written}, written' \in {0, written},
         nextRequestId' \in {nextRequestId, nextRequestId + 1}
  PROVE  WatcherTypeOK' /\ WatcherInv'
<1>1. WatcherTypeOK'
  <2>1. lines' \in Seq(Lines)
    <3>1. <<>> \in Seq(Lines)
      OBVIOUS
    <3> QED  BY <3>1 DEF WatcherTypeOK
  <2>2. requestId' \in Nat /\ written' \in Nat /\ nextRequestId' \in Nat
    BY DEF WatcherTypeOK
  <2> QED  BY <2>1, <2>2 DEF WatcherTypeOK
<1>2. \A i \in DOMAIN lines' : i \in DOMAIN lines /\ lines'[i] = lines[i]
  <2>1. CASE lines' = <<>>
    BY <2>1
  <2> QED  BY <2>1
<1>3. LinesSound'
  <2>1. /\ requestId' <= nextRequestId' /\ written' <= nextRequestId'
        /\ nextRequestId <= nextRequestId'
    BY DEF LinesSound, WatcherInv, WatcherTypeOK
  <2>2. \A i \in DOMAIN lines : lines[i].id <= nextRequestId' /\ lines[i].id \in Nat
    BY <2>1, LineTypes DEF LinesSound, WatcherInv, WatcherTypeOK
  <2>3. \A r \in pending' : r.at <= front'.n
    BY DEF LinesSound, WatcherInv, WatcherTypeOK, Windows, Requests
  <2> QED  BY <1>2, <2>1, <2>2, <2>3 DEF LinesSound, WatcherInv
<1>4. NeverOlder'
  BY DEF NeverOlder, WatcherInv
<1> QED  BY <1>1, <1>3, <1>4 DEF WatcherInv

\* The invariant holds at the start and is kept by every step, whichever helper the
\* client has, and whenever the process dies and its requests are counted anew.
THEOREM WatcherInvariant == HelpersSpec => [](WatcherTypeOK /\ WatcherInv)
<1>1. HelpersInit => WatcherTypeOK /\ WatcherInv
  <2> SUFFICES ASSUME WatcherInit  PROVE WatcherTypeOK /\ WatcherInv
    BY DEF HelpersInit
  <2>1. WatcherTypeOK
    BY DEF WatcherInit, WatcherTypeOK, Windows
  <2> QED  BY <2>1 DEF WatcherInit, WatcherInv, LinesSound, NeverOlder
<1>2. WatcherTypeOK /\ WatcherInv /\ [HelpersNext]_helperVars =>
        (WatcherTypeOK /\ WatcherInv)'
  <2> SUFFICES ASSUME WatcherTypeOK, WatcherInv, WatcherNext \/ UNCHANGED watcherVars
               PROVE  WatcherTypeOK' /\ WatcherInv'
    BY DEF HelpersNext, helperVars, OfRelay, OfWatcher, OfPaste
  <2>0. front \in Windows /\ front.n \in Nat /\ front.n >= front.n
    BY DEF WatcherTypeOK, Windows
  <2>1. CASE UNCHANGED watcherVars
    BY <2>0, <2>1, OthersSound DEF watcherVars, sampler, requests
  <2>2. ASSUME NEW reads \in BOOLEAN, Wakes(reads)  PROVE WatcherTypeOK' /\ WatcherInv'
    BY <2>0, <2>2, OthersSound DEF Wakes, requests
  <2>3. CASE Samples
    BY <2>3, SamplesSound
  <2>4. CASE HearsLine
    BY <2>4, HearsLineSound
  <2>5. CASE Hangs \/ CheckStall \/ Reads
    BY <2>0, <2>5, OthersSound DEF Hangs, CheckStall, Reads, requests, sampler
  <2>6. CASE ProcessExits \/ StopWatcher
    BY <2>0, <2>6, OthersSound DEF ProcessExits, StopWatcher, ResolveNull, Discards
  <2>7. CASE RestartFires
    BY <2>0, <2>7, OthersSound DEF RestartFires, requests
  <2>8. ASSUME NEW fails \in BOOLEAN, ReadEnds(fails)  PROVE WatcherTypeOK' /\ WatcherInv'
    BY <2>0, <2>8, OthersSound DEF ReadEnds, sampler
  <2>9. ASSUME NEW a \in answers, Takes(a)  PROVE WatcherTypeOK' /\ WatcherInv'
    BY <2>0, <2>9, OthersSound DEF Takes, sampler
  <2>10. ASSUME NEW r \in pending, TimesOut(r)  PROVE WatcherTypeOK' /\ WatcherInv'
    BY <2>0, <2>10, OthersSound DEF TimesOut, ResolveNull, sampler
  <2>11. ASSUME NEW kind \in Kinds, ComesToFront(kind)  PROVE WatcherTypeOK' /\ WatcherInv'
    <3>1. front' \in Windows /\ front'.n >= front.n
      BY <2>11 DEF ComesToFront, Windows, WatcherTypeOK
    <3> QED  BY <3>1, <2>11, OthersSound DEF ComesToFront, sampler, requests
  <2>12. CASE AsksSource
    BY <2>12, RequestSound DEF AsksSource
  <2>13. CASE Captures
    <3>1. CASE process # "none"
      BY <2>13, <3>1, RequestSound DEF Captures
    <3>2. CASE process = "none"
      BY <2>0, <2>13, <3>2, OthersSound DEF Captures
    <3> QED  BY <3>1, <3>2
  <2> QED  BY <2>1, <2>2, <2>3, <2>4, <2>5, <2>6, <2>7, <2>8, <2>9, <2>10, <2>11, <2>12, <2>13
           DEF WatcherNext, ProcessGoesOn, ProcessReplaced, CaptureGoesOn
<1> QED  BY <1>1, <1>2, PTL DEF HelpersSpec

\* No sample answers a request that was made after it was taken, over any number of
\* processes, requests and lines underway: what is pasted into was in front when it was
\* asked for, or later.
THEOREM AnswersNeverOlder == HelpersSpec => []NeverOlder
<1>1. WatcherTypeOK /\ WatcherInv => NeverOlder
  BY DEF WatcherInv
<1> QED  BY <1>1, WatcherInvariant, PTL

-----------------------------------------------------------------------------
(***************************************************************************)
(* The paste of a selection.                                                *)
(***************************************************************************)

Contents == [by : {"user", "client"}, n : Nat]

Writes ==
    [status : {"pending", "succeeded", "failed", "cancelled"}, aborted : BOOLEAN,
     tries : Nat, before : Contents]

Services == [current : Nat, observed : Contents, writes : Seq(Writes)]

Calls ==
    [at : {"none", "writing", "capturing", "launched", "struck", "answered"},
     round : Nat, ready : BOOLEAN, pasted : BOOLEAN, keys : Nat, copies : Nat, cut : BOOLEAN]

\* The current operation is one there is.
Sound(s) == s \in Services /\ (s.current = 0 \/ s.current \in DOMAIN s.writes)

PasteTypeOK ==
    /\ shows \in Contents /\ copies \in Nat /\ serving \in BOOLEAN
    /\ Sound(service)
    /\ calls \in Seq(Calls) /\ Len(calls) = Len(service.writes)

(***************************************************************************)
(* The inductive invariant.                                                *)
(***************************************************************************)

\* A call goes beyond its operation only when that has succeeded.
CallsReady ==
    \A i \in DOMAIN calls :
        /\ calls[i].ready => service.writes[i].status = "succeeded"
        /\ calls[i].at \in {"capturing", "launched", "struck"} => calls[i].ready

\* A helper that is alive is that of the current operation, and the clipboard holds
\* its content unless the user has copied after the helper was launched.
HelperSound ==
    \A i \in DOMAIN calls :
        /\ calls[i].copies <= copies
        /\ Alive(i) =>
            /\ service.current = i
            /\ \/ shows = Write(i)
               \/ shows.by = "user" /\ shows.n > calls[i].copies

\* What a call that was not cut has done at each stage.
KeysCounted(call) ==
    ~call.cut =>
        /\ call.at = "struck" => call.keys = 1 /\ ~call.pasted
        /\ call.at = "answered" => call.keys = IF call.pasted THEN 1 ELSE 0
        /\ call.at \notin {"struck", "answered"} => call.keys = 0 /\ ~call.pasted

KeysSound == \A i \in DOMAIN calls : KeysCounted(calls[i])

PasteInv == CallsReady /\ HelperSound /\ KeysSound

(***************************************************************************)
(* The operations of the service.                                          *)
(***************************************************************************)

\* What every step of the service keeps: operations do not vanish, a success stands,
\* an abort stands, and an operation is replaced only by aborting it.
GoesOn(s, t) ==
    /\ Sound(t) /\ Len(t.writes) = Len(s.writes)
    /\ \A i \in DOMAIN s.writes :
        /\ s.writes[i].status = "succeeded" => t.writes[i].status = "succeeded"
        /\ s.writes[i].aborted => t.writes[i].aborted
    /\ \/ t.current = s.current
       \/ t.current = 0 /\ (s.current # 0 => t.writes[s.current].aborted)

\* The operation that is current is changed, the others are left alone.
LEMMA OneChanged ==
  ASSUME NEW s, Sound(s), s.current # 0, NEW w \in Writes, NEW o \in Contents,
         NEW c \in {0, s.current}, NEW t,
         t = [current |-> c, observed |-> o, writes |-> [s.writes EXCEPT ![s.current] = w]],
         s.writes[s.current].status = "succeeded" => w.status = "succeeded",
         s.writes[s.current].aborted => w.aborted,
         c = 0 => w.aborted
  PROVE  GoesOn(s, t)
<1>1. /\ s.writes \in Seq(Writes) /\ s.current \in DOMAIN s.writes
      /\ DOMAIN s.writes = 1..Len(s.writes) /\ Len(s.writes) \in Nat /\ s.current \in Nat
  BY DEF Sound, Services
<1>2. /\ t.current = c /\ t.observed = o
      /\ t.writes = [s.writes EXCEPT ![s.current] = w]
  OBVIOUS
<1>3. /\ t.writes \in Seq(Writes) /\ Len(t.writes) = Len(s.writes)
      /\ DOMAIN t.writes = DOMAIN s.writes
      /\ t.writes[s.current] = w
      /\ \A i \in DOMAIN s.writes : i # s.current => t.writes[i] = s.writes[i]
  BY <1>1, <1>2
<1>4. t \in Services
  BY <1>1, <1>2, <1>3 DEF Services
<1>5. Sound(t)
  BY <1>1, <1>2, <1>3, <1>4 DEF Sound
<1>6. \A i \in DOMAIN s.writes :
        /\ s.writes[i].status = "succeeded" => t.writes[i].status = "succeeded"
        /\ s.writes[i].aborted => t.writes[i].aborted
  BY <1>3
<1> QED  BY <1>2, <1>3, <1>5, <1>6 DEF GoesOn

\* Only what was observed changes.
LEMMA ObservedChanged ==
  ASSUME NEW s, Sound(s), NEW o \in Contents
  PROVE  GoesOn(s, [s EXCEPT !.observed = o])
<1> DEFINE t == [s EXCEPT !.observed = o]
<1>1. t.current = s.current /\ t.writes = s.writes /\ t \in Services
  BY DEF Sound, Services
<1> QED  BY <1>1 DEF GoesOn, Sound

\* Two steps are one.
LEMMA GoesOnTwice ==
  ASSUME NEW s, NEW t, NEW u, Sound(s), GoesOn(s, t), GoesOn(t, u)
  PROVE  GoesOn(s, u)
<1>1. /\ DOMAIN s.writes = 1..Len(s.writes) /\ DOMAIN t.writes = 1..Len(t.writes)
      /\ Len(t.writes) = Len(s.writes)
  BY DEF GoesOn, Sound, Services
<1>2. s.current = 0 \/ s.current \in DOMAIN s.writes
  BY DEF Sound
<1> QED  BY <1>1, <1>2 DEF GoesOn

LEMMA CancelSound ==
  ASSUME NEW s, Sound(s)
  PROVE  GoesOn(s, Cancel(s)) /\ Cancel(s).current = 0
<1>1. CASE s.current = 0
  BY <1>1 DEF Cancel, GoesOn
<1>2. CASE s.current # 0
  <2> DEFINE w == [s.writes[s.current] EXCEPT !.aborted = TRUE,
                      !.status = IF Waits(s) THEN "cancelled" ELSE @]
  <2>1. s \in Services /\ s.writes[s.current] \in Writes
    BY <1>2 DEF Sound, Services
  <2>2. /\ w \in Writes /\ w.aborted
        /\ s.writes[s.current].status = "succeeded" => w.status = "succeeded"
    BY <2>1 DEF Writes, Waits, Current
  <2>3. Cancel(s) = [current |-> 0, observed |-> s.observed,
                     writes |-> [s.writes EXCEPT ![s.current] = w]]
    BY <1>2, <2>1 DEF Cancel, Services, Writes, Sound
  <2>4. s.observed \in Contents
    BY <2>1 DEF Services
  <2> HIDE DEF w
  <2>5. GoesOn(s, Cancel(s))
    BY <1>2, <2>2, <2>3, <2>4, OneChanged
  <2> QED  BY <2>3, <2>5
<1> QED  BY <1>1, <1>2

LEMMA NoticeSound ==
  ASSUME NEW s, Sound(s), shows \in Contents
  PROVE  GoesOn(s, Notice(s)) /\ Notice(s).current = 0
<1>1. GoesOn(s, Cancel(s)) /\ Cancel(s).current = 0 /\ Sound(Cancel(s))
  BY CancelSound DEF GoesOn
<1>2. GoesOn(Cancel(s), Notice(s))
  BY <1>1, ObservedChanged DEF Notice
<1>3. Notice(s).current = Cancel(s).current
  BY <1>1 DEF Notice, Sound, Services
<1> QED  BY <1>1, <1>2, <1>3, GoesOnTwice

LEMMA RecogniseSound ==
  ASSUME NEW s, Sound(s), shows \in Contents
  PROVE  GoesOn(s, Recognise(s))
<1>1. CASE Waits(s)
  <2> DEFINE w == [s.writes[s.current] EXCEPT !.before = shows]
  <2>1. s.current # 0 /\ s \in Services /\ s.writes[s.current] \in Writes
    BY <1>1 DEF Sound, Services, Waits
  <2>2. /\ w \in Writes /\ w.status = s.writes[s.current].status
        /\ w.aborted = s.writes[s.current].aborted
    BY <2>1 DEF Writes
  <2>3. Recognise(s) = [current |-> s.current, observed |-> shows,
                        writes |-> [s.writes EXCEPT ![s.current] = w]]
    BY <1>1, <2>1 DEF Recognise, Services
  <2> HIDE DEF w
  <2> QED  BY <2>1, <2>2, <2>3, OneChanged
<1>2. CASE ~Waits(s)
  BY <1>2, ObservedChanged DEF Recognise
<1> QED  BY <1>1, <1>2

\* The current operation is w, what was observed is o.
Put(s, o, w) ==
    [current |-> s.current, observed |-> o, writes |-> [s.writes EXCEPT ![s.current] = w]]

LEMMA PutSound ==
  ASSUME NEW s, Sound(s), s.current # 0, NEW o \in Contents, NEW w \in Writes,
         w.aborted = s.writes[s.current].aborted,
         s.writes[s.current].status = "succeeded" => w.status = "succeeded"
  PROVE  /\ GoesOn(s, Put(s, o, w)) /\ Put(s, o, w).current = s.current
         /\ Put(s, o, w).writes[s.current] = w
<1>1. GoesOn(s, Put(s, o, w))
  BY OneChanged DEF Put
<1>2. s.current \in DOMAIN s.writes /\ s.writes \in Seq(Writes)
  BY DEF Sound, Services
<1> QED  BY <1>1, <1>2 DEF Put

\* What is known of an operation that waits.
LEMMA WaitingOne ==
  ASSUME NEW s, Sound(s), Waits(s)
  PROVE  /\ s \in Services /\ s.current # 0 /\ s.current \in Nat /\ s.observed \in Contents
         /\ s.current \in DOMAIN s.writes /\ s.writes[s.current] \in Writes
         /\ s.writes[s.current].status = "pending"
BY DEF Sound, Services, Waits, Current

\* The steps of a try: it is counted, ...
Counted(s) == [s EXCEPT !.writes[s.current].tries = @ + 1]

LEMMA CountedSound ==
  ASSUME NEW s, Sound(s), Waits(s)
  PROVE  GoesOn(s, Counted(s)) /\ Waits(Counted(s)) /\ Counted(s).current = s.current
<1> DEFINE w == [s.writes[s.current] EXCEPT !.tries = @ + 1]
<1>1. /\ w \in Writes /\ w.aborted = s.writes[s.current].aborted /\ w.status = "pending"
  BY WaitingOne DEF Writes
<1>2. Counted(s) = Put(s, s.observed, w)
  <2>1. s \in Services /\ s.writes[s.current] \in Writes
    BY WaitingOne
  <2>2. s.writes \in Seq(Writes) /\ s.current \in DOMAIN s.writes
    BY WaitingOne DEF Services
  <2>3. Counted(s) = [s EXCEPT !.writes = [@ EXCEPT ![s.current] = w]]
    BY <2>1, <2>2 DEF Counted
  <2> HIDE DEF w
  <2> QED  BY <2>1, <2>3 DEF Put, Services
<1> HIDE DEF w
<1> QED  BY <1>1, <1>2, WaitingOne, PutSound DEF Waits, Current

\* ... the content it replaces is remembered, ...
Replacing(s) == [s EXCEPT !.writes[s.current].before = shows]

LEMMA ReplacingSound ==
  ASSUME NEW s, Sound(s), Waits(s), shows \in Contents
  PROVE  GoesOn(s, Replacing(s)) /\ Waits(Replacing(s)) /\ Replacing(s).current = s.current
<1> DEFINE w == [s.writes[s.current] EXCEPT !.before = shows]
<1>1. /\ w \in Writes /\ w.aborted = s.writes[s.current].aborted /\ w.status = "pending"
  BY WaitingOne DEF Writes
<1>2. Replacing(s) = Put(s, s.observed, w)
  BY WaitingOne DEF Replacing, Put, Services
<1> HIDE DEF w
<1> QED  BY <1>1, <1>2, WaitingOne, PutSound DEF Waits, Current

\* ... and it succeeds ...
LEMMA SucceedSound ==
  ASSUME NEW s, Sound(s), Waits(s)
  PROVE  GoesOn(s, Succeed(s)) /\ Succeed(s).current = s.current
<1> DEFINE w == [s.writes[s.current] EXCEPT !.status = "succeeded"]
<1>1. /\ w \in Writes /\ w.aborted = s.writes[s.current].aborted
      /\ w.status = "succeeded"
  BY WaitingOne DEF Writes
<1>2. Write(s.current) \in Contents
  BY WaitingOne DEF Write, Contents
<1>3. Succeed(s) = Put(s, Write(s.current), w)
  <2>1. s \in Services /\ s.writes[s.current] \in Writes
    BY WaitingOne
  <2>2. s.writes \in Seq(Writes) /\ s.current \in DOMAIN s.writes
    BY WaitingOne DEF Services
  <2>3. Succeed(s) = [s EXCEPT !.observed = Write(s.current),
                               !.writes = [@ EXCEPT ![s.current] = w]]
    BY <2>1, <2>2 DEF Succeed
  <2> HIDE DEF w
  <2> QED  BY <2>1, <2>3 DEF Put, Services
<1> HIDE DEF w
<1> QED  BY <1>1, <1>2, <1>3, WaitingOne, PutSound

\* ... or is to be made again, or was the last.
LEMMA AgainSound ==
  ASSUME NEW s, Sound(s), Waits(s)
  PROVE  GoesOn(s, Again(s))
<1>1. CASE Current(s).tries < MaxTries
  <2>1. GoesOn(s, s)
    BY DEF GoesOn
  <2> QED  BY <1>1, <2>1 DEF Again
<1>2. CASE ~(Current(s).tries < MaxTries)
  <2> DEFINE w == [s.writes[s.current] EXCEPT !.status = "failed"]
  <2>1. w \in Writes /\ w.aborted = s.writes[s.current].aborted
    BY WaitingOne DEF Writes
  <2>2. Again(s) = Put(s, s.observed, w)
    BY <1>2, WaitingOne DEF Again, Put, Services
  <2> HIDE DEF w
  <2> QED  BY <2>1, <2>2, WaitingOne, PutSound
<1> QED  BY <1>1, <1>2

\* A try of the current operation, whatever comes of it.
LEMMA TrySound ==
  ASSUME NEW s, Sound(s), Waits(s), shows \in Contents, NEW result \in Results,
         Try(s, result)
  PROVE  GoesOn(s, service') /\ shows' \in Contents
<1> DEFINE n == Counted(s)
           w == Replacing(n)
<1>1. GoesOn(s, n) /\ Sound(n) /\ Waits(n) /\ n.current = s.current
  BY CountedSound DEF GoesOn
<1>2. GoesOn(n, w) /\ Sound(w) /\ Waits(w)
  BY <1>1, ReplacingSound DEF GoesOn
<1>3. \/ service' \in {Succeed(n), Notice(n)} /\ UNCHANGED shows
      \/ service' = Again(w) /\ shows' \in {shows, Write(s.current)}
      \/ service' = Succeed(w) /\ shows' = Write(s.current)
  BY <1>1 DEF Try, Results, Counted, Replacing
<1> HIDE DEF n, w
<1>4. GoesOn(s, w)
  BY <1>1, <1>2, GoesOnTwice
<1>5. GoesOn(s, Succeed(n)) /\ GoesOn(s, Notice(n))
  BY <1>1, SucceedSound, NoticeSound, GoesOnTwice
<1>6. GoesOn(s, Succeed(w)) /\ GoesOn(s, Again(w))
  BY <1>2, <1>4, SucceedSound, AgainSound, GoesOnTwice
<1>7. Write(s.current) \in Contents
  BY WaitingOne DEF Write, Contents
<1> QED  BY <1>3, <1>5, <1>6, <1>7

\* A new operation aborts the one before it.
LEMMA BeginSound ==
  ASSUME PasteTypeOK, NEW result \in Results, Begin(result)
  PROVE  /\ Sound(service') /\ shows' \in Contents
         /\ Len(service'.writes) = Len(service.writes) + 1
         /\ \A i \in DOMAIN service.writes :
             /\ service.writes[i].status = "succeeded" =>
                    service'.writes[i].status = "succeeded"
             /\ service.writes[i].aborted => service'.writes[i].aborted
         /\ service.current # 0 => service'.writes[service.current].aborted
<1> DEFINE c == Cancel(service)
           s == [c EXCEPT !.writes = Append(@, NewWrite), !.current = Len(c.writes) + 1]
<1>1. GoesOn(service, c) /\ Sound(c) /\ c.current = 0
  BY CancelSound DEF PasteTypeOK, GoesOn
<1>2. /\ c.writes \in Seq(Writes) /\ c.observed \in Contents /\ Len(c.writes) \in Nat
      /\ DOMAIN c.writes = 1..Len(c.writes)
      /\ c = [current |-> c.current, observed |-> c.observed, writes |-> c.writes]
  BY <1>1 DEF Sound, Services
<1>3. NewWrite \in Writes /\ NewWrite.status = "pending"
  BY DEF NewWrite, Writes, PasteTypeOK, Sound, Services
<1> HIDE DEF c
<1> DEFINE k == Len(c.writes) + 1
           new == Append(c.writes, NewWrite)
<1> HIDE DEF k, new
<1>4. s = [current |-> k, observed |-> c.observed, writes |-> new]
  <2>1. s = [c EXCEPT !.writes = new, !.current = k]
    BY DEF k, new
  <2>2. c \in Services
    BY <1>1 DEF Sound
  <2> HIDE DEF s
  <2> QED  BY <2>1, <2>2 DEF Services
<1> HIDE DEF s
<1>5. /\ s.current = Len(c.writes) + 1 /\ s.writes = Append(c.writes, NewWrite)
      /\ s.observed = c.observed
      /\ s = [current |-> s.current, observed |-> s.observed, writes |-> s.writes]
  BY <1>4 DEF k, new
<1>6. /\ s.writes \in Seq(Writes) /\ Len(s.writes) = Len(c.writes) + 1
      /\ s.writes[s.current] = NewWrite /\ s.current \in DOMAIN s.writes
      /\ s.current # 0 /\ s.current \in Nat
      /\ \A i \in DOMAIN c.writes : i \in DOMAIN s.writes /\ s.writes[i] = c.writes[i]
  BY <1>2, <1>3, <1>5
<1>7. Sound(s) /\ Waits(s)
  BY <1>2, <1>3, <1>5, <1>6 DEF Sound, Services, Waits, Current
<1>8. GoesOn(s, service') /\ shows' \in Contents
  <2>1. CASE serving
    <3>1. Try(s, result)
      BY <2>1 DEF Begin, s, c
    <3> QED  BY <3>1, <1>7, TrySound DEF PasteTypeOK
  <2>2. CASE ~serving
    <3>1. service' = Cancel(s) /\ UNCHANGED shows
      BY <2>2 DEF Begin, s, c
    <3> QED  BY <3>1, <1>7, CancelSound DEF PasteTypeOK
  <2> QED  BY <2>1, <2>2
<1>9. /\ DOMAIN service.writes = DOMAIN c.writes /\ Len(c.writes) = Len(service.writes)
      /\ service.current # 0 => service.current \in DOMAIN c.writes
  BY <1>1, <1>2 DEF GoesOn, PasteTypeOK, Sound, Services
<1>10. service.current # 0 => c.writes[service.current].aborted
  BY <1>1 DEF GoesOn
<1> QED  BY <1>1, <1>6, <1>8, <1>9, <1>10 DEF GoesOn

(***************************************************************************)
(* What keeps the invariant.                                               *)
(***************************************************************************)

LEMMA Domains ==
  ASSUME PasteTypeOK
  PROVE  /\ DOMAIN calls = 1..Len(calls) /\ DOMAIN service.writes = DOMAIN calls
         /\ Len(calls) \in Nat /\ service.writes \in Seq(Writes)
         /\ service.current # 0 => service.current \in DOMAIN calls
         /\ \A i \in DOMAIN calls : i \in Nat /\ i # 0 /\ calls[i] \in Calls
BY DEF PasteTypeOK, Sound, Services

\* While an operation waits, no helper is alive.
LEMMA NoHelperWhileWaiting ==
  ASSUME PasteTypeOK, PasteInv, Waits(service)
  PROVE  \A i \in DOMAIN calls : ~Alive(i)
BY DEF PasteInv, CallsReady, HelperSound, Alive, Helped, Waits, Current

\* The service moves, the calls do not.
LEMMA ServiceMoves ==
  ASSUME PasteTypeOK, PasteInv, GoesOn(service, service'), shows' \in Contents,
         shows' = shows \/ \A i \in DOMAIN calls : ~Alive(i),
         calls' = calls, copies' = copies, serving' \in BOOLEAN
  PROVE  PasteTypeOK' /\ PasteInv'
<1>1. PasteTypeOK'
  BY DEF PasteTypeOK, GoesOn
<1>2. CallsReady'
  BY Domains DEF PasteInv, CallsReady, GoesOn
<1>3. HelperSound'
  <2> SUFFICES ASSUME NEW i \in DOMAIN calls
               PROVE  /\ calls[i].copies <= copies
                      /\ Alive(i)' => /\ service'.current = i
                                      /\ \/ shows' = Write(i)
                                         \/ shows'.by = "user" /\ shows'.n > calls[i].copies
    BY DEF HelperSound, Write
  <2>1. Alive(i)' => Alive(i)
    BY Domains DEF Alive, GoesOn
  <2>2. Alive(i)' => service'.current = i
    BY <2>1, Domains DEF Alive, GoesOn, PasteInv, HelperSound
  <2> QED  BY <2>1, <2>2 DEF PasteInv, HelperSound
<1>4. KeysSound'
  BY DEF PasteInv, KeysSound, KeysCounted
<1> QED  BY <1>1, <1>2, <1>3, <1>4 DEF PasteInv

\* A call moves: a helper that is there from now on is launched for the operation that
\* is current, with its content on the clipboard.
LEMMA CallMoves ==
  ASSUME PasteTypeOK, PasteInv, NEW i \in DOMAIN calls, NEW call \in Calls,
         calls' = [calls EXCEPT ![i] = call], GoesOn(service, service'),
         shows' = shows, copies' = copies, serving' = serving,
         call.copies <= copies,
         call.ready => service.writes[i].status = "succeeded",
         call.at \in {"capturing", "launched", "struck"} => call.ready,
         KeysCounted(call),
         call.at \in Helped =>
            \/ service.current = i /\ shows = Write(i)
            \/ calls[i].at \in Helped /\ call.copies = calls[i].copies
  PROVE  PasteTypeOK' /\ PasteInv'
<1>0. /\ calls' \in Seq(Calls) /\ Len(calls') = Len(calls) /\ DOMAIN calls' = DOMAIN calls
      /\ calls'[i] = call /\ \A j \in DOMAIN calls : j # i => calls'[j] = calls[j]
  BY Domains DEF PasteTypeOK
<1>1. PasteTypeOK'
  BY <1>0 DEF PasteTypeOK, GoesOn
<1>2. CallsReady'
  BY <1>0, Domains DEF PasteInv, CallsReady, GoesOn
<1>3. HelperSound'
  <2> SUFFICES ASSUME NEW j \in DOMAIN calls
               PROVE  /\ calls'[j].copies <= copies
                      /\ Alive(j)' => /\ service'.current = j
                                      /\ \/ shows = Write(j)
                                         \/ shows.by = "user" /\ shows.n > calls'[j].copies
    BY <1>0 DEF HelperSound, Write
  <2>1. CASE j # i
    <3>1. calls'[j] = calls[j]
      BY <1>0, <2>1
    <3>2. Alive(j)' => Alive(j)
      BY <3>1, Domains DEF Alive, GoesOn
    <3>3. Alive(j)' => service'.current = j
      BY <3>2, Domains DEF Alive, GoesOn, PasteInv, HelperSound
    <3> QED  BY <3>1, <3>2, <3>3 DEF PasteInv, HelperSound
  <2>2. CASE j = i
    <3>1. calls'[i] = call
      BY <1>0
    <3>2. ASSUME Alive(i)'
          PROVE  /\ service'.current = i
                 /\ \/ shows = Write(i)
                    \/ shows.by = "user" /\ shows.n > call.copies
      <4>1. call.at \in Helped /\ ~service.writes[i].aborted /\ ~service'.writes[i].aborted
        BY <3>1, <3>2, Domains DEF Alive, GoesOn
      <4>2. /\ service.current = i
            /\ \/ shows = Write(i)
               \/ shows.by = "user" /\ shows.n > call.copies
        <5>1. CASE service.current = i /\ shows = Write(i)
          BY <5>1
        <5>2. CASE calls[i].at \in Helped /\ call.copies = calls[i].copies
          BY <4>1, <5>2 DEF PasteInv, HelperSound, Alive
        <5> QED  BY <4>1, <5>1, <5>2
      <4>3. i # 0
        BY Domains
      <4> QED  BY <4>1, <4>2, <4>3 DEF GoesOn
    <3> QED  BY <2>2, <3>1, <3>2
  <2> QED  BY <2>1, <2>2
<1>4. KeysSound'
  BY <1>0 DEF PasteInv, KeysSound, KeysCounted
<1> QED  BY <1>1, <1>2, <1>3, <1>4 DEF PasteInv

\* A new operation, and the call that waits for it.
LEMMA CallAdded ==
  ASSUME PasteTypeOK, PasteInv, NEW result \in Results, Begin(result),
         NEW at \in {"none", "writing"},
         calls' = Append(calls, [NoCall EXCEPT !.at = at]),
         copies' = copies, serving' = serving
  PROVE  PasteTypeOK' /\ PasteInv'
<1> DEFINE call == [NoCall EXCEPT !.at = at]
<1>0. /\ call \in Calls /\ ~call.ready /\ call.at = at /\ call.copies = 0
      /\ KeysCounted(call)
  BY DEF NoCall, Calls, KeysCounted
<1> HIDE DEF call
<1>1. /\ calls' \in Seq(Calls) /\ Len(calls') = Len(calls) + 1
      /\ DOMAIN calls' = DOMAIN calls \cup {Len(calls) + 1}
      /\ calls'[Len(calls) + 1] = call
      /\ \A j \in DOMAIN calls : calls'[j] = calls[j] /\ j # Len(calls) + 1
  <2>1. calls' = Append(calls, call)
    BY DEF call
  <2> QED  BY <1>0, <2>1, Domains DEF PasteTypeOK
<1>2. PasteTypeOK'
  BY <1>1, BeginSound DEF PasteTypeOK
<1>3. CallsReady'
  BY <1>0, <1>1, BeginSound, Domains DEF PasteInv, CallsReady
<1>4. HelperSound'
  <2> SUFFICES ASSUME NEW j \in DOMAIN calls'
               PROVE  calls'[j].copies <= copies /\ ~Alive(j)'
    BY DEF HelperSound
  <2>1. CASE j \in DOMAIN calls
    <3>1. calls'[j] = calls[j]
      BY <1>1, <2>1
    <3>2. ~Alive(j)'
      BY <2>1, <3>1, BeginSound, Domains DEF PasteInv, HelperSound, Alive
    <3> QED  BY <2>1, <3>1, <3>2 DEF PasteInv, HelperSound
  <2>2. CASE j = Len(calls) + 1
    <3>1. calls'[j] = call
      BY <1>1, <2>2
    <3>2. ~Alive(j)'
      BY <1>0, <3>1 DEF Alive, Helped
    <3>3. call.copies <= copies /\ copies' = copies
      BY <1>0 DEF PasteTypeOK
    <3> QED  BY <3>1, <3>2, <3>3
  <2> QED  BY <1>1, <2>1, <2>2
<1>5. KeysSound'
  <2> SUFFICES ASSUME NEW j \in DOMAIN calls'
               PROVE  KeysCounted(calls'[j])
    BY DEF KeysSound, KeysCounted
  <2>1. CASE j \in DOMAIN calls
    BY <1>1, <2>1 DEF PasteInv, KeysSound
  <2>2. CASE j = Len(calls) + 1
    <3>1. calls'[j] = call
      BY <1>1, <2>2
    <3> QED  BY <1>0, <3>1 DEF KeysCounted
  <2> QED  BY <1>1, <2>1, <2>2
<1> QED  BY <1>2, <1>3, <1>4, <1>5 DEF PasteInv

(***************************************************************************)
(* The actions.                                                            *)
(***************************************************************************)

LEMMA CheckedSound ==
  ASSUME PasteTypeOK, NEW i \in DOMAIN calls, NEW read \in BOOLEAN
  PROVE  GoesOn(service, Checked(i, read))
<1>1. GoesOn(service, service)
  BY DEF GoesOn, PasteTypeOK
<1>2. Checked(i, read) \in {service, Notice(service), Cancel(service)}
  BY DEF Checked
<1> QED  BY <1>1, <1>2, CancelSound, NoticeSound DEF PasteTypeOK

\* The call is answered without a paste, or waits for the window in front.
LEMMA CallRests ==
  ASSUME PasteTypeOK, PasteInv, NEW i \in DOMAIN calls, NEW call \in Calls,
         NEW at \in {"answered", "capturing"},
         calls' = [calls EXCEPT ![i] = [call EXCEPT !.at = at]], GoesOn(service, service'),
         shows' = shows, copies' = copies, serving' = serving,
         call.copies <= copies, call.ready => service.writes[i].status = "succeeded",
         at = "capturing" => call.ready,
         ~call.cut => call.keys = 0 /\ ~call.pasted
  PROVE  PasteTypeOK' /\ PasteInv'
<1> DEFINE new == [call EXCEPT !.at = at]
<1>1. /\ new \in Calls /\ new.at = at /\ new.copies = call.copies /\ new.ready = call.ready
      /\ new.cut = call.cut /\ new.keys = call.keys /\ new.pasted = call.pasted
  BY DEF Calls
<1> HIDE DEF new
<1>2. calls' = [calls EXCEPT ![i] = new]
  BY DEF new
<1>3. KeysCounted(new) /\ new.at \notin Helped
  BY <1>1 DEF KeysCounted, Helped
<1> QED  BY <1>1, <1>2, <1>3, CallMoves

\* An attempt to paste, with the window found or not.
LEMMA AttemptsSound ==
  ASSUME PasteTypeOK, PasteInv, NEW i \in DOMAIN calls, NEW call \in Calls,
         NEW found \in BOOLEAN, NEW read \in BOOLEAN, Attempts(i, call, found, read),
         shows' = shows, copies' = copies, serving' = serving,
         call.copies <= copies, call.ready => service.writes[i].status = "succeeded",
         ~call.cut => call.keys = 0 /\ ~call.pasted
  PROVE  PasteTypeOK' /\ PasteInv'
<1>1. GoesOn(service, service')
  BY CheckedSound DEF Attempts, GoesOn, PasteTypeOK
<1>2. CASE calls' = Answers(i, call)
  BY <1>1, <1>2, CallRests DEF Answers
<1>3. CASE call.ready /\ calls' = [calls EXCEPT ![i] = [call EXCEPT !.at = "capturing"]]
  BY <1>1, <1>3, CallRests
<1>4. CASE call.ready /\ MayPaste(i, read) /\ calls' = Launches(i, call)
  <2> DEFINE new == [call EXCEPT !.at = "launched", !.round = @ + 1, !.copies = copies]
  <2>1. /\ new \in Calls /\ new.at = "launched" /\ new.copies = copies /\ new.ready
        /\ new.cut = call.cut /\ new.keys = call.keys /\ new.pasted = call.pasted
    <3>1. call.round + 1 \in Nat /\ copies \in Nat
      BY DEF Calls, PasteTypeOK
    <3>2. /\ new \in Calls /\ new.at = "launched" /\ new.copies = copies
          /\ new.ready = call.ready /\ new.cut = call.cut /\ new.keys = call.keys
          /\ new.pasted = call.pasted
      BY <3>1 DEF Calls
    <3> HIDE DEF new
    <3> QED  BY <1>4, <3>2
  <2> HIDE DEF new
  <2>2. calls' = [calls EXCEPT ![i] = new]
    BY <1>4 DEF new, Launches
  <2>3. KeysCounted(new) /\ new.copies <= copies
    BY <2>1 DEF KeysCounted, PasteTypeOK
  <2>4. service.current = i /\ shows = Write(i)
    BY <1>4 DEF MayPaste
  <2> QED  BY <1>1, <1>4, <2>1, <2>2, <2>3, <2>4, CallMoves
<1> QED  BY <1>2, <1>3, <1>4 DEF Attempts

LEMMA WriteEndsSound ==
  ASSUME PasteTypeOK, PasteInv, NEW i \in DOMAIN calls, NEW found \in BOOLEAN,
         NEW read \in BOOLEAN, WriteEnds(i, found, read)
  PROVE  PasteTypeOK' /\ PasteInv'
<1> DEFINE call == [calls[i] EXCEPT !.ready = service.writes[i].status = "succeeded"]
<1>1. /\ calls[i] \in Calls /\ calls[i].copies <= copies
      /\ ~calls[i].cut => calls[i].keys = 0 /\ ~calls[i].pasted
  BY Domains DEF WriteEnds, PasteInv, HelperSound, KeysSound, KeysCounted
<1>2. /\ call \in Calls /\ call.copies <= copies
      /\ call.ready => service.writes[i].status = "succeeded"
      /\ ~call.cut => call.keys = 0 /\ ~call.pasted
  BY <1>1 DEF Calls
<1>3. Attempts(i, call, found, read) /\ UNCHANGED <<shows, serving, copies>>
  BY DEF WriteEnds
<1> HIDE DEF call
<1> QED  BY <1>2, <1>3, AttemptsSound

LEMMA CaptureEndsSound ==
  ASSUME PasteTypeOK, PasteInv, NEW i \in DOMAIN calls, NEW found \in BOOLEAN,
         NEW read \in BOOLEAN, CaptureEnds(i, found, read)
  PROVE  PasteTypeOK' /\ PasteInv'
<1>1. /\ calls[i] \in Calls /\ calls[i].copies <= copies
      /\ calls[i].ready => service.writes[i].status = "succeeded"
      /\ ~calls[i].cut => calls[i].keys = 0 /\ ~calls[i].pasted
  BY Domains DEF CaptureEnds, PasteInv, CallsReady, HelperSound, KeysSound, KeysCounted
<1>2. GoesOn(service, service)
  BY DEF GoesOn, PasteTypeOK
<1>3. CASE found
  <2> DEFINE call == [calls[i] EXCEPT !.round = 1]
  <2>1. /\ call \in Calls /\ call.copies <= copies
        /\ call.ready => service.writes[i].status = "succeeded"
        /\ ~call.cut => call.keys = 0 /\ ~call.pasted
    BY <1>1 DEF Calls
  <2>2. Attempts(i, call, TRUE, read) /\ UNCHANGED <<shows, serving, copies>>
    BY <1>3 DEF CaptureEnds
  <2> HIDE DEF call
  <2> QED  BY <2>1, <2>2, AttemptsSound
<1>4. CASE ~found
  BY <1>1, <1>2, <1>4, CallRests DEF CaptureEnds, Answers
<1> QED  BY <1>3, <1>4

LEMMA HelperFailsSound ==
  ASSUME PasteTypeOK, PasteInv, NEW i \in DOMAIN calls, NEW read \in BOOLEAN,
         HelperFails(i, read)
  PROVE  PasteTypeOK' /\ PasteInv'
<1> DEFINE call == [calls[i] EXCEPT !.cut = @ \/ calls[i].at = "struck"]
<1>1. /\ calls[i] \in Calls /\ calls[i].copies <= copies
      /\ calls[i].ready => service.writes[i].status = "succeeded"
      /\ calls[i].at \in {"launched", "struck"}
      /\ ~calls[i].cut /\ calls[i].at # "struck" => calls[i].keys = 0 /\ ~calls[i].pasted
  BY Domains DEF HelperFails, Helped, PasteInv, CallsReady, HelperSound, KeysSound, KeysCounted
<1>2. /\ call \in Calls /\ call.copies <= copies
      /\ call.ready => service.writes[i].status = "succeeded"
      /\ ~call.cut => call.keys = 0 /\ ~call.pasted
  BY <1>1 DEF Calls
<1>3. GoesOn(service, service)
  BY DEF GoesOn, PasteTypeOK
<1>4. /\ \/ Attempts(i, call, FALSE, read)
         \/ calls' = Answers(i, call) /\ UNCHANGED service
      /\ UNCHANGED <<shows, serving, copies>>
  BY DEF HelperFails
<1> HIDE DEF call
<1>5. CASE Attempts(i, call, FALSE, read)
  BY <1>2, <1>4, <1>5, AttemptsSound
<1>6. CASE calls' = Answers(i, call) /\ UNCHANGED service
  BY <1>2, <1>3, <1>4, <1>6, CallRests DEF Answers
<1> QED  BY <1>4, <1>5, <1>6

LEMMA PermissionRequiredSound ==
  ASSUME PasteTypeOK, PasteInv, NEW i \in DOMAIN calls, PermissionRequired(i)
  PROVE  PasteTypeOK' /\ PasteInv'
<1>1. /\ calls[i] \in Calls /\ calls[i].copies <= copies
      /\ calls[i].ready => service.writes[i].status = "succeeded"
      /\ ~calls[i].cut => calls[i].keys = 0 /\ ~calls[i].pasted
  BY Domains DEF PermissionRequired, PasteInv, CallsReady, HelperSound, KeysSound, KeysCounted
<1>2. GoesOn(service, service)
  BY DEF GoesOn, PasteTypeOK
<1> QED  BY <1>1, <1>2, CallRests DEF PermissionRequired, Answers

LEMMA StrikesKeySound ==
  ASSUME PasteTypeOK, PasteInv, NEW i \in DOMAIN calls, StrikesKey(i)
  PROVE  PasteTypeOK' /\ PasteInv'
<1> DEFINE new == [calls[i] EXCEPT !.at = "struck", !.keys = @ + 1]
<1>1. /\ calls[i] \in Calls /\ calls[i].copies <= copies /\ calls[i].at = "launched"
      /\ calls[i].ready /\ service.writes[i].status = "succeeded"
      /\ ~calls[i].cut => calls[i].keys = 0 /\ ~calls[i].pasted
  BY Domains DEF StrikesKey, PasteInv, CallsReady, HelperSound, KeysSound, KeysCounted
<1>2. calls' = [calls EXCEPT ![i] = new]
  <2>1. calls' = [calls EXCEPT ![i].at = "struck", ![i].keys = @ + 1]
    BY DEF StrikesKey
  <2>2. calls[i] = [at |-> calls[i].at, round |-> calls[i].round, ready |-> calls[i].ready,
                    pasted |-> calls[i].pasted, keys |-> calls[i].keys,
                    copies |-> calls[i].copies, cut |-> calls[i].cut]
    BY <1>1 DEF Calls
  <2> QED  BY <2>1, <2>2
<1>3. /\ new \in Calls /\ new.at = "struck" /\ new.copies = calls[i].copies /\ new.ready
      /\ KeysCounted(new)
  <2>1. calls[i].keys \in Nat /\ calls[i].keys + 1 \in Nat
    BY <1>1 DEF Calls
  <2>2. /\ new \in Calls /\ new.at = "struck" /\ new.copies = calls[i].copies
        /\ new.ready = calls[i].ready /\ new.keys = calls[i].keys + 1
        /\ new.cut = calls[i].cut /\ new.pasted = calls[i].pasted
    BY <1>1, <2>1 DEF Calls
  <2> HIDE DEF new
  <2> QED  BY <1>1, <2>2 DEF KeysCounted
<1>4. GoesOn(service, service)
  BY DEF GoesOn, PasteTypeOK
<1>5. calls[i].at \in Helped /\ UNCHANGED <<shows, service, serving, copies>>
  BY <1>1 DEF Helped, StrikesKey
<1> HIDE DEF new
<1> QED  BY <1>1, <1>2, <1>3, <1>4, <1>5, CallMoves

LEMMA PastesSound ==
  ASSUME PasteTypeOK, PasteInv, NEW i \in DOMAIN calls, Pastes(i)
  PROVE  PasteTypeOK' /\ PasteInv'
<1> DEFINE new == [[calls[i] EXCEPT !.pasted = TRUE] EXCEPT !.at = "answered"]
<1>1. /\ calls[i] \in Calls /\ calls[i].copies <= copies
      /\ calls[i].ready => service.writes[i].status = "succeeded"
      /\ ~calls[i].cut => calls[i].keys = 1
  BY Domains DEF Pastes, PasteInv, CallsReady, HelperSound, KeysSound, KeysCounted
<1>2. calls' = [calls EXCEPT ![i] = new] /\ UNCHANGED <<shows, service, serving, copies>>
  BY DEF Pastes, Answers
<1>3. /\ new \in Calls /\ new.at = "answered" /\ new.copies = calls[i].copies
      /\ new.ready = calls[i].ready /\ KeysCounted(new)
  BY <1>1 DEF Calls, KeysCounted
<1>4. GoesOn(service, service)
  BY DEF GoesOn, PasteTypeOK
<1> HIDE DEF new
<1> QED  BY <1>1, <1>2, <1>3, <1>4, CallMoves DEF Helped

\* The service alone moves; a retry finds no helper that is alive.
LEMMA ServiceSound ==
  ASSUME PasteTypeOK, PasteInv,
         RetryGoesOn \/ PollClipboard \/ Withdraws \/ StopsOrStarts
  PROVE  PasteTypeOK' /\ PasteInv'
<1>0. Sound(service) /\ shows \in Contents
  BY DEF PasteTypeOK
<1>1. CASE RetryGoesOn
  <2> PICK result \in Results : RetryWrite(result)
    BY <1>1 DEF RetryGoesOn
  <2>1. GoesOn(service, service') /\ shows' \in Contents
    BY <1>0, TrySound DEF RetryWrite
  <2> QED  BY <2>1, NoHelperWhileWaiting, ServiceMoves DEF RetryWrite, PasteTypeOK
<1>2. CASE PollClipboard
  <2>1. GoesOn(service, service')
    BY <1>0, <1>2, SucceedSound, RecogniseSound, NoticeSound DEF PollClipboard
  <2> QED  BY <1>0, <1>2, <2>1, ServiceMoves DEF PollClipboard, PasteTypeOK
<1>3. CASE Withdraws
  BY <1>0, <1>3, CancelSound, ServiceMoves DEF Withdraws, PasteTypeOK
<1>4. CASE StopsOrStarts
  <2>1. GoesOn(service, service')
    BY <1>0, <1>4, CancelSound, ObservedChanged DEF StopsOrStarts
  <2> QED  BY <1>0, <1>4, <2>1, ServiceMoves DEF StopsOrStarts, PasteTypeOK
<1> QED  BY <1>1, <1>2, <1>3, <1>4

\* What the user copies is later than every look.
LEMMA CopiesSound ==
  ASSUME PasteTypeOK, PasteInv, Copies
  PROVE  PasteTypeOK' /\ PasteInv'
<1>1. /\ copies' = copies + 1 /\ copies \in Nat /\ shows' = Copied(copies + 1)
      /\ UNCHANGED <<service, serving, calls>>
  BY DEF Copies, PasteTypeOK
<1>2. shows' \in Contents /\ shows'.by = "user" /\ shows'.n = copies + 1
  BY <1>1 DEF Copied, Contents
<1>3. PasteTypeOK'
  BY <1>1, <1>2 DEF PasteTypeOK
<1>4. HelperSound'
  <2> SUFFICES ASSUME NEW i \in DOMAIN calls
               PROVE  /\ calls[i].copies <= copies + 1 /\ copies + 1 > calls[i].copies
                      /\ Alive(i)' => service.current = i
    BY <1>1, <1>2 DEF HelperSound
  <2>1. calls[i].copies <= copies /\ calls[i].copies \in Nat
    BY Domains DEF PasteInv, HelperSound, Calls
  <2>2. Alive(i)' = Alive(i)
    BY <1>1 DEF Alive
  <2> QED  BY <1>1, <2>1, <2>2 DEF PasteInv, HelperSound
<1>5. CallsReady' /\ KeysSound'
  BY <1>1 DEF PasteInv, CallsReady, KeysSound, KeysCounted
<1> QED  BY <1>3, <1>4, <1>5 DEF PasteInv

(***************************************************************************)
(* The theorems.                                                           *)
(***************************************************************************)

\* Every step of the client is one of a paste, or leaves it alone.
LEMMA PasteSteps ==
  ASSUME [HelpersNext]_helperVars
  PROVE  PasteNext \/ UNCHANGED pasteVars
BY DEF HelpersNext, helperVars, OfRelay, OfWatcher, OfPaste

LEMMA PasteNextSound ==
  ASSUME PasteTypeOK, PasteInv, PasteNext
  PROVE  PasteTypeOK' /\ PasteInv'
<1>1. CASE CallGoesOn
  BY <1>1, WriteEndsSound, CaptureEndsSound, HelperFailsSound DEF CallGoesOn
<1>2. CASE RetryGoesOn \/ PollClipboard \/ Withdraws \/ StopsOrStarts
  BY <1>2, ServiceSound
<1>3. CASE Copies
  BY <1>3, CopiesSound
<1>4. ASSUME NEW result \in Results, Receives(result)  PROVE PasteTypeOK' /\ PasteInv'
  <2>1. calls' = Append(calls, [NoCall EXCEPT !.at = "none"])
    BY <1>4 DEF Receives, NoCall
  <2> QED  BY <1>4, <2>1, CallAdded DEF Receives
<1>5. ASSUME NEW result \in Results, SelectsEvent(result)  PROVE PasteTypeOK' /\ PasteInv'
  BY <1>5, CallAdded DEF SelectsEvent
<1>6. ASSUME NEW i \in DOMAIN calls, StrikesKey(i) \/ Pastes(i) \/ PermissionRequired(i)
      PROVE  PasteTypeOK' /\ PasteInv'
  BY <1>6, StrikesKeySound, PastesSound, PermissionRequiredSound
<1> QED  BY <1>1, <1>2, <1>3, <1>4, <1>5, <1>6 DEF PasteNext

\* The invariant holds at the start and is kept by every step.
THEOREM PasteInvariant == HelpersSpec => [](PasteTypeOK /\ PasteInv)
<1>1. HelpersInit => PasteTypeOK /\ PasteInv
  <2> SUFFICES ASSUME PasteInit  PROVE PasteTypeOK /\ PasteInv
    BY DEF HelpersInit
  <2>1. Copied(0) \in Contents
    BY DEF Copied, Contents
  <2>2. calls = <<>> /\ service.writes = <<>> /\ service.current = 0 /\ service \in Services
    BY <2>1 DEF PasteInit, Services
  <2>3. PasteTypeOK
    BY <2>1, <2>2 DEF PasteInit, PasteTypeOK, Sound
  <2> QED  BY <2>2, <2>3 DEF PasteInv, CallsReady, HelperSound, KeysSound
<1>2. PasteTypeOK /\ PasteInv /\ [HelpersNext]_helperVars => (PasteTypeOK /\ PasteInv)'
  <2>1. ASSUME PasteTypeOK, PasteInv, UNCHANGED pasteVars
        PROVE  PasteTypeOK' /\ PasteInv'
    BY <2>1 DEF pasteVars, PasteTypeOK, PasteInv, CallsReady, HelperSound, KeysSound,
                KeysCounted, Alive
  <2> QED  BY <2>1, PasteSteps, PasteNextSound
<1> QED  BY <1>1, <1>2, PTL DEF HelpersSpec

\* A key is struck by a helper that is alive, and only then.
LEMMA StruckByHelper ==
  ASSUME PasteTypeOK, PasteInv, PasteNext, NEW i \in DOMAIN calls,
         calls'[i].keys # calls[i].keys
  PROVE  Alive(i)
<1>0. /\ \A j \in DOMAIN calls : calls[j] \in Calls /\ Len(calls) + 1 # j
      /\ \A new : Append(calls, new)[i] = calls[i]
      /\ \A j, new : [calls EXCEPT ![j] = new][i] = IF j = i THEN new ELSE calls[i]
  BY Domains DEF PasteTypeOK
<1>1. ASSUME NEW j \in DOMAIN calls, NEW call \in Calls, call.keys = calls[j].keys,
             NEW read \in BOOLEAN, NEW found \in BOOLEAN,
             Attempts(j, call, found, read) \/ calls' = Answers(j, call)
      PROVE  FALSE
  <2>1. \E new : calls' = [calls EXCEPT ![j] = new] /\ new.keys = call.keys
    BY <1>1 DEF Attempts, Answers, Launches, Calls
  <2> QED  BY <1>0, <1>1, <2>1
<1>2. CASE CallGoesOn
  <2> PICK j \in DOMAIN calls, found \in BOOLEAN, read \in BOOLEAN :
         WriteEnds(j, found, read) \/ CaptureEnds(j, found, read) \/ HelperFails(j, read)
    BY <1>2 DEF CallGoesOn
  <2>0. calls[j] \in Calls
    BY <1>0
  <2>1. CASE WriteEnds(j, found, read)
    <3> DEFINE call == [calls[j] EXCEPT !.ready = service.writes[j].status = "succeeded"]
    <3>1. call \in Calls /\ call.keys = calls[j].keys
      BY <2>0 DEF Calls
    <3>2. Attempts(j, call, found, read)
      BY <2>1 DEF WriteEnds
    <3> HIDE DEF call
    <3> QED  BY <1>1, <3>1, <3>2
  <2>2. CASE CaptureEnds(j, found, read)
    <3> DEFINE call == [calls[j] EXCEPT !.round = 1]
    <3>1. call \in Calls /\ call.keys = calls[j].keys
      BY <2>0 DEF Calls
    <3>2. Attempts(j, call, TRUE, read) \/ calls' = Answers(j, calls[j])
      BY <2>2 DEF CaptureEnds
    <3> HIDE DEF call
    <3> QED  BY <1>1, <2>0, <3>1, <3>2
  <2>3. CASE HelperFails(j, read)
    <3> DEFINE call == [calls[j] EXCEPT !.cut = @ \/ calls[j].at = "struck"]
    <3>1. call \in Calls /\ call.keys = calls[j].keys
      BY <2>0 DEF Calls
    <3>2. Attempts(j, call, FALSE, read) \/ calls' = Answers(j, call)
      BY <2>3 DEF HelperFails
    <3> HIDE DEF call
    <3> QED  BY <1>1, <3>1, <3>2
  <2> QED  BY <2>1, <2>2, <2>3
<1>3. CASE UNCHANGED calls
  BY <1>3
<1>4. ASSUME NEW j \in DOMAIN calls, StrikesKey(j) \/ Pastes(j) \/ PermissionRequired(j)
      PROVE  Alive(i)
  <2>1. CASE StrikesKey(j)
    <3>1. j # i => calls'[i] = calls[i]
      BY <2>1 DEF StrikesKey
    <3> QED  BY <2>1, <3>1 DEF StrikesKey
  <2>2. CASE Pastes(j)
    <3>1. /\ [calls[j] EXCEPT !.pasted = TRUE] \in Calls
          /\ [calls[j] EXCEPT !.pasted = TRUE].keys = calls[j].keys
      BY <1>0 DEF Calls
    <3> QED  BY <1>1, <2>2, <3>1 DEF Pastes
  <2>3. CASE PermissionRequired(j)
    BY <1>0, <1>1, <2>3 DEF PermissionRequired
  <2> QED  BY <1>4, <2>1, <2>2, <2>3
<1>5. \/ CallGoesOn \/ UNCHANGED calls
      \/ \E new : calls' = Append(calls, new)
      \/ \E j \in DOMAIN calls : StrikesKey(j) \/ Pastes(j) \/ PermissionRequired(j)
  BY DEF PasteNext, RetryGoesOn, RetryWrite, PollClipboard, Withdraws, StopsOrStarts, Copies,
         Receives, SelectsEvent
<1> QED
  <2>1. CASE \E new : calls' = Append(calls, new)
    BY <1>0, <2>1
  <2> QED  BY <1>2, <1>3, <1>4, <1>5, <2>1

\* What is pasted is what was selected, whatever is selected, received or changed from
\* the selection to the key stroke, but for what the user copies at the last moment.
THEOREM PastedAsMeant == HelpersSpec => PastesAsMeant
<1>1. PasteTypeOK /\ PasteInv /\ [HelpersNext]_helperVars =>
        [\A i \in DOMAIN calls : calls'[i].keys # calls[i].keys =>
            \/ shows = Write(i)
            \/ shows.by = "user" /\ shows.n > calls[i].copies]_pasteVars
  <2> SUFFICES ASSUME PasteTypeOK, PasteInv, PasteNext, NEW i \in DOMAIN calls,
                      calls'[i].keys # calls[i].keys
               PROVE  \/ shows = Write(i)
                      \/ shows.by = "user" /\ shows.n > calls[i].copies
    BY PasteSteps
  <2>1. Alive(i)
    BY StruckByHelper
  <2> QED  BY <2>1 DEF PasteInv, HelperSound
<1> QED  BY <1>1, PasteInvariant, PTL DEF HelpersSpec, PastesAsMeant

\* A selection whose helper is not cut off is pasted once if the answer says so, and
\* otherwise not at all.
THEOREM PastedAtMostOnce == HelpersSpec => []PastedOnce
<1>1. PasteTypeOK /\ PasteInv => PastedOnce
  BY DEF PasteInv, KeysSound, KeysCounted, PastedOnce
<1> QED  BY <1>1, PasteInvariant, PTL
=============================================================================
