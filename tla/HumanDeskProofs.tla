---------------------------- MODULE HumanDeskProofs ----------------------------
(***************************************************************************)
(* What is proved about HumanDesk for any threads, credentials and pages,  *)
(* any number of calls under way, lost or overtaken, and whatever others   *)
(* do on the board: after an act of the person, a page that is neither     *)
(* busy nor shows an error shows the board as it was at or after the act.  *)
(***************************************************************************)
EXTENDS HumanDesk, TLAPS

-----------------------------------------------------------------------------
(* The inductive invariant. *)

Kinds == {"load", "reload", "act", "me"}

\* What a call is made of, as far as it matters here.
IsCall(c) ==
  c \in [kind : Kinds, page : {c.page}, act : {c.act}, token : {c.token},
         mounted : BOOLEAN, served : BOOLEAN, answer : {c.answer}, fresh : BOOLEAN]

\* A reading whose page is gone has nothing to say but that it was unauthorized.
Forgotten(c) ==
  c.kind # "act" /\ ~c.mounted /\ c.served => c.answer.status = "unauthorized"

Kept(c) == c = Free \/ (IsCall(c) /\ Forgotten(c))

AllKept(slots) == slots = [s \in Slot |-> slots[s]] /\ \A s \in Slot : Kept(slots[s])

Mounted(c) == c # Free /\ c.mounted

Polls == Manners(page.name).polls

\* A call of the page that is open: what its kind says of the page, and whether
\* its answer is one from after the last act.
Fits(c) ==
  /\ c.kind # "me"
  /\ c.kind \in {"act", "reload"} => busy /\ ~Polls
  /\ c.kind \in {"load", "reload"} /\ c.served => c.fresh
  /\ c.kind = "load" /\ ~Polls => view = None

\* A page that does not poll has one call under way.
OneCall ==
  ~Polls => \A r, s \in Slot : Mounted(calls[r]) /\ Mounted(calls[s]) => r = s

PageIsServed ==
  page # LoginPage =>
    /\ \A s \in Slot : Mounted(calls[s]) => Fits(calls[s])
    /\ OneCall
    /\ ~busy /\ ~error => ~behind

IInv == AllKept(calls) /\ PageIsServed

-----------------------------------------------------------------------------
(* Lemmas about calls. *)

LEMMA FreeIsNoCall == Kept(Free) /\ ~IsCall(Free) /\ ~Mounted(Free)
  BY DEF Kept, IsCall, Free, Kinds, Mounted

LEMMA NewCallIsKept ==
  ASSUME NEW kind \in Kinds, NEW p, NEW act, NEW credential
  PROVE  LET c == NewCall(kind, p, act, credential) IN
         /\ IsCall(c) /\ Kept(c) /\ c # Free
         /\ c.kind = kind /\ c.mounted /\ ~c.served
<1> DEFINE c == NewCall(kind, p, act, credential)
<1>1. /\ c.kind = kind /\ c.page = p /\ c.act = act /\ c.token = credential
      /\ c.mounted = TRUE /\ c.served = FALSE /\ c.answer = None /\ c.fresh = FALSE
  BY DEF NewCall
<1>2. c = [kind |-> kind, page |-> p, act |-> act, token |-> credential,
           mounted |-> TRUE, served |-> FALSE, answer |-> None, fresh |-> FALSE]
  BY DEF NewCall
<1> HIDE DEF c
<1>3. IsCall(c)
  BY <1>1, <1>2 DEF IsCall
<1>4. QED
  BY <1>1, <1>3, FreeIsNoCall DEF Kept, Forgotten, c

\* What a page leaves behind is not mounted any more.
LEMMA UnmountedIsKept ==
  ASSUME NEW c, Kept(c)
  PROVE  Kept(Unmounted(c)) /\ ~Mounted(Unmounted(c))
<1>1. CASE Unmounted(c) = Free
  BY <1>1, FreeIsNoCall
<1>2. CASE Unmounted(c) # Free
  <2>1. IsCall(c) /\ Unmounted(c) = [c EXCEPT !.mounted = FALSE]
        /\ ~(c.kind # "act" /\ c.served /\ c.answer.status # "unauthorized")
    BY <1>2 DEF Unmounted, Kept
  <2> DEFINE d == [c EXCEPT !.mounted = FALSE]
  <2>2. /\ IsCall(d) /\ d.kind = c.kind /\ d.served = c.served
        /\ d.answer = c.answer /\ d.mounted = FALSE
    BY <2>1 DEF IsCall
  <2>3. Forgotten(d)
    BY <2>1, <2>2 DEF Forgotten
  <2>4. QED
    BY <2>1, <2>2, <2>3 DEF Kept, Mounted
<1>3. QED
  BY <1>1, <1>2

\* A call that is taken out.
LEMMA WithoutIsKept ==
  ASSUME AllKept(calls), NEW s \in Slot
  PROVE  /\ AllKept(Without(s)) /\ Without(s)[s] = Free
         /\ \A r \in Slot \ {s} : Without(s)[r] = calls[r]
<1>1. Without(s) = [r \in Slot |-> IF r = s THEN Free ELSE calls[r]]
  BY DEF AllKept, Without
<1>2. QED
  BY <1>1, FreeIsNoCall DEF AllKept

\* A call that is answered: the answer is from after every act that was served.
LEMMA AnsweredIsKept ==
  ASSUME AllKept(calls), NEW s \in Slot, calls[s] # Free, NEW status, NEW seen,
         calls[s].mounted \/ calls[s].kind = "act" \/ status = "unauthorized"
  PROVE  /\ AllKept(Answered(s, status, seen))
         /\ Answered(s, status, seen)[s].kind = calls[s].kind
         /\ Answered(s, status, seen)[s].mounted = calls[s].mounted
         /\ Answered(s, status, seen)[s].fresh
         /\ \A r \in Slot \ {s} : Answered(s, status, seen)[r] = calls[r]
<1> DEFINE answer == [status |-> status, seen |-> seen]
           c == [calls[s] EXCEPT !.served = TRUE, !.fresh = TRUE, !.answer = answer]
<1>1. IsCall(calls[s]) /\ Forgotten(calls[s])
  BY DEF AllKept, Kept
<1>2. answer.status = status
  OBVIOUS
<1>3. /\ c.kind = calls[s].kind /\ c.mounted = calls[s].mounted /\ c.fresh = TRUE
      /\ c.served = TRUE /\ c.answer = answer /\ IsCall(c)
  <2> HIDE DEF answer
  <2> QED BY <1>1 DEF IsCall
<1>4. Forgotten(c)
  BY <1>2, <1>3 DEF Forgotten
<1>5. Answered(s, status, seen) = [r \in Slot |-> IF r = s THEN c ELSE calls[r]]
  BY DEF AllKept, Answered
<1> HIDE DEF c
<1>6. QED
  BY <1>3, <1>4, <1>5 DEF AllKept, Kept

-----------------------------------------------------------------------------
(* Every step keeps the invariant. *)

\* A page that is opened has one call under way, its own reading.
LEMMA MountKeeps ==
  ASSUME NEW p, NEW left, AllKept(left), Mount(p, left)
  PROVE  IInv'
<1>1. page' = p /\ view' = None /\ behind' = FALSE /\ busy' = FALSE /\ error' = FALSE
  BY DEF Mount
<1> DEFINE gone == [s \in Slot |-> Unmounted(left[s])]
<1>2. \A s \in Slot : Kept(gone[s]) /\ ~Mounted(gone[s])
  BY UnmountedIsKept DEF AllKept
<1>3. CASE p = LoginPage
  <2>1. calls' = gone
    BY <1>3 DEF Mount
  <2>2. AllKept(calls')
    BY <1>2, <2>1 DEF AllKept
  <2>3. QED
    BY <1>1, <1>3, <2>2 DEF IInv, PageIsServed
<1>4. CASE p # LoginPage
  <2>1. PICK n : calls' = [gone EXCEPT ![n] = NewCall("load", p, NoAct, token)]
    BY <1>4 DEF Mount
  <2>2. PICK load : load = NewCall("load", p, NoAct, token)
    OBVIOUS
  <2>3. Kept(load) /\ load.kind = "load" /\ ~load.served
    BY <2>2, NewCallIsKept DEF Kinds
  <2>4. calls' = [s \in Slot |-> IF s = n THEN load ELSE gone[s]]
    BY <2>1, <2>2
  <2> HIDE DEF gone
  <2>5. AllKept(calls')
    BY <1>2, <2>3, <2>4 DEF AllKept
  <2>6. \A s \in Slot : Mounted(calls'[s]) => s = n /\ calls'[s] = load
    BY <1>2, <2>4
  <2>7. OneCall'
    BY <2>6 DEF OneCall
  <2>8. \A s \in Slot : Mounted(calls'[s]) => Fits(calls[s])'
    BY <1>1, <2>3, <2>6 DEF Fits
  <2>9. QED
    BY <1>1, <2>5, <2>7, <2>8 DEF IInv, PageIsServed
<1>5. QED
  BY <1>3, <1>4

\* A step that takes one call out, and leaves the page to itself.
LEMMA WithoutKeeps ==
  ASSUME IInv, NEW s \in Slot, calls' = Without(s), UNCHANGED <<page, view, busy, error, behind>>
  PROVE  IInv'
<1>1. AllKept(calls') /\ \A r \in Slot : calls'[r] \in {Free, calls[r]}
  BY WithoutIsKept DEF IInv
<1>2. PageIsServed'
  BY <1>1, FreeIsNoCall DEF IInv, PageIsServed, OneCall, Fits, Polls
<1>3. QED
  BY <1>1, <1>2 DEF IInv

\* A step that answers one call.
LEMMA AnsweredKeeps ==
  ASSUME IInv, NEW s \in Slot, calls[s] # Free, NEW status, NEW seen,
         calls[s].mounted \/ calls[s].kind = "act" \/ status = "unauthorized",
         calls' = Answered(s, status, seen), UNCHANGED <<page, view, busy, error, behind>>
  PROVE  IInv'
<1>1. AllKept(calls)
  BY DEF IInv
<1>2. /\ AllKept(calls') /\ calls'[s].kind = calls[s].kind /\ calls'[s].mounted = calls[s].mounted
      /\ calls'[s].fresh /\ \A r \in Slot \ {s} : calls'[r] = calls[r]
  BY <1>1, AnsweredIsKept
<1>3. \A r \in Slot : Mounted(calls'[r]) => Mounted(calls[r])
  BY <1>2 DEF Mounted
<1>4. \A r \in Slot : Fits(calls[r]) => Fits(calls[r])'
  BY <1>2 DEF Fits, Polls
<1>5. PageIsServed'
  BY <1>3, <1>4 DEF IInv, PageIsServed, OneCall, Polls
<1>6. QED
  BY <1>2, <1>5 DEF IInv

\* A step that the page and the calls do not show.
LEMMA UnseenKeeps ==
  ASSUME IInv, UNCHANGED <<page, view, busy, error, behind, calls>>
  PROVE  IInv'
<1>1. calls' = calls /\ page' = page
  OBVIOUS
<1>2. AllKept(calls')
  BY <1>1 DEF IInv
<1>3. PageIsServed'
  BY DEF IInv, PageIsServed, OneCall, Fits, Polls
<1>4. QED
  BY <1>2, <1>3 DEF IInv

LEMMA PollKeeps == ASSUME IInv, Poll PROVE IInv'
<1>1. /\ Polls /\ page # LoginPage /\ AllKept(calls)
      /\ calls' = [calls EXCEPT ![NextSlot] = NewCall("load", page, NoAct, token)]
      /\ UNCHANGED <<page, view, busy, error, behind>>
  BY DEF Poll, Polls, deskVars, IInv
<1>2. PICK c : c = NewCall("load", page, NoAct, token)
  OBVIOUS
<1>3. Kept(c) /\ c.kind = "load" /\ ~c.served
  BY <1>2, NewCallIsKept DEF Kinds
<1>4. calls' = [s \in Slot |-> IF s = NextSlot THEN c ELSE calls[s]]
  BY <1>1, <1>2 DEF AllKept
<1>5. Polls' /\ page' # LoginPage
  BY <1>1 DEF Polls
<1>6. \A s \in Slot : Mounted(calls'[s]) => Fits(calls[s])'
  BY <1>1, <1>3, <1>4, <1>5 DEF IInv, PageIsServed, Fits
<1>7. PageIsServed'
  BY <1>1, <1>5, <1>6 DEF IInv, PageIsServed, OneCall
<1>8. QED
  BY <1>1, <1>3, <1>4, <1>7 DEF IInv, AllKept

\* Where the person can act nothing is under way.
LEMMA NothingUnderWay ==
  ASSUME IInv, page # LoginPage, ~Polls, ~busy, view # None, NEW s \in Slot
  PROVE  ~Mounted(calls[s])
<1>1. SUFFICES ASSUME Mounted(calls[s]) PROVE FALSE
  OBVIOUS
<1>2. Fits(calls[s]) /\ calls[s].kind \in Kinds
  BY <1>1 DEF IInv, PageIsServed, AllKept, Kept, IsCall, Mounted
<1>3. QED
  BY <1>2 DEF Fits, Kinds

LEMMA AskedKeeps ==
  ASSUME IInv, NEW name, NEW on, NEW shown, Asked(name, on, shown), ~busy,
         view # None, page.name \in {"thread", "inbox", "settings"}
  PROVE  IInv'
<1>1. ~Polls /\ page # LoginPage
  BY DEF Polls, Manners, ThreadPage, InboxPage, SettingsPage, LoginPage
<1>2. \A s \in Slot : ~Mounted(calls[s])
  BY <1>1, NothingUnderWay
<1>3. PICK c : Kept(c) /\ c.kind = "act" /\ calls' = [calls EXCEPT ![NextSlot] = c]
  <2>1. PICK act : calls' = [calls EXCEPT ![NextSlot] = NewCall("act", page, act, token)]
    BY DEF Asked
  <2>2. QED
    BY <2>1, NewCallIsKept DEF Kinds
<1>4. calls' = [s \in Slot |-> IF s = NextSlot THEN c ELSE calls[s]]
  BY <1>3 DEF IInv, AllKept
<1>5. ~Polls' /\ page' # LoginPage /\ busy'
  BY <1>1 DEF Asked, Polls
<1>6. \A s \in Slot : Mounted(calls'[s]) => s = NextSlot
  BY <1>2, <1>4
<1>7. \A s \in Slot : Mounted(calls'[s]) => Fits(calls[s])'
  BY <1>3, <1>4, <1>5, <1>6 DEF Fits
<1>8. QED
  BY <1>3, <1>4, <1>5, <1>6, <1>7 DEF IInv, AllKept, PageIsServed, OneCall

LEMMA ActsKeep ==
  ASSUME IInv,
         \/ \E kind \in {"ratify", "send_back", "reject_thread", "complete_thread"} : Declare(kind)
         \/ Submit
         \/ \E t \in Thread : CompleteFromInbox(t)
         \/ \E c \in Credential : RevokeCredential(c)
  PROVE  IInv'
<1>1. ASSUME NEW kind, Declare(kind) PROVE IInv'
  BY <1>1, AskedKeeps DEF Declare, CallAct, CanAct
<1>2. ASSUME Submit PROVE IInv'
  BY <1>2, AskedKeeps DEF Submit, SendPost, CanCompose, CanAct
<1>3. ASSUME NEW t, CompleteFromInbox(t) PROVE IInv'
  BY <1>3, AskedKeeps DEF CompleteFromInbox, CallAct, CanAct
<1>4. ASSUME NEW c, RevokeCredential(c) PROVE IInv'
  BY <1>4, AskedKeeps DEF RevokeCredential, CallAct, CanAct
<1>5. QED
  BY <1>1, <1>2, <1>3, <1>4

LEMMA LoginKeeps == ASSUME IInv, NEW c, completeLogin(c) PROVE IInv'
<1>1. /\ page' = LoginPage /\ AllKept(calls)
      /\ calls' = [calls EXCEPT ![NextSlot] = NewCall("me", page, NoAct, c)]
  BY DEF completeLogin, IInv
<1>2. PICK call : Kept(call) /\ calls' = [calls EXCEPT ![NextSlot] = call]
  BY <1>1, NewCallIsKept DEF Kinds
<1>3. calls' = [s \in Slot |-> IF s = NextSlot THEN call ELSE calls[s]]
  BY <1>1, <1>2 DEF AllKept
<1>4. QED
  BY <1>1, <1>2, <1>3 DEF IInv, AllKept, PageIsServed

LEMMA ServeActKeeps == ASSUME IInv, NEW s \in Slot, ServeAct(s) PROVE IInv'
<1>1. /\ calls[s] # Free /\ calls[s].kind = "act" /\ AllKept(calls) /\ IsCall(calls[s])
      /\ UNCHANGED <<page, view, error, busy>>
      /\ behind' = (behind \/ calls[s].mounted)
  BY DEF ServeAct, Pending, IInv, AllKept, Kept
<1> DEFINE answered == Answered(s, "ok", None)
<1>2. /\ AllKept(answered) /\ answered[s].kind = "act" /\ answered[s].mounted = calls[s].mounted
      /\ answered[s] # Free
  BY <1>1, AnsweredIsKept, FreeIsNoCall DEF Free
<1> HIDE DEF answered
<1>3. calls' = [r \in Slot |->
        IF r = s THEN answered[s]
        ELSE IF calls[r] # Free /\ calls[s].mounted
             THEN [calls[r] EXCEPT !.fresh = FALSE] ELSE calls[r]]
  BY DEF ServeAct, answered
<1>4. ASSUME NEW r \in Slot \ {s}, calls'[r] # calls[r]
      PROVE  /\ calls[s].mounted /\ calls[r] # Free
             /\ IsCall(calls'[r]) /\ Forgotten(calls'[r])
             /\ calls'[r].mounted = calls[r].mounted
  <2>1. calls[r] # Free /\ calls[s].mounted /\ IsCall(calls[r]) /\ Forgotten(calls[r])
    BY <1>1, <1>3, <1>4 DEF AllKept, Kept
  <2> DEFINE d == [calls[r] EXCEPT !.fresh = FALSE]
  <2>2. calls'[r] = d
    BY <1>3, <2>1
  <2>3. IsCall(d) /\ d.kind = calls[r].kind /\ d.mounted = calls[r].mounted
        /\ d.served = calls[r].served /\ d.answer = calls[r].answer
    BY <2>1 DEF IsCall
  <2>4. QED
    BY <2>1, <2>2, <2>3 DEF Forgotten
<1>5. AllKept(calls')
  BY <1>1, <1>2, <1>3, <1>4 DEF AllKept, Kept
<1>6. calls'[s] = answered[s] /\ \A r \in Slot : Mounted(calls'[r]) => Mounted(calls[r])
  BY <1>1, <1>2, <1>3, <1>4 DEF Mounted
<1>7. ASSUME page # LoginPage PROVE PageIsServed'
  <2>1. CASE calls[s].mounted
    <3>1. busy /\ ~Polls /\ \A r \in Slot : Mounted(calls[r]) => r = s
      BY <1>1, <1>7, <2>1 DEF IInv, PageIsServed, Fits, OneCall, Mounted
    <3>2. busy' /\ ~Polls'
      BY <1>1, <3>1 DEF Polls
    <3>3. \A r \in Slot : Mounted(calls'[r]) => Fits(calls[r])'
      BY <1>2, <1>6, <3>1, <3>2 DEF Fits
    <3>4. QED
      BY <1>6, <3>1, <3>2, <3>3 DEF PageIsServed, OneCall
  <2>2. CASE ~calls[s].mounted
    <3>1. \A r \in Slot : Mounted(calls'[r]) => calls'[r] = calls[r] /\ Mounted(calls[r])
      BY <1>2, <1>4, <1>6, <2>2 DEF Mounted
    <3>2. behind' => behind
      BY <1>1, <2>2
    <3>3. QED
      BY <1>1, <1>7, <3>1, <3>2 DEF IInv, PageIsServed, OneCall, Fits, Polls
  <2>3. QED
    BY <2>1, <2>2
<1>8. QED
  BY <1>1, <1>5, <1>7 DEF IInv, PageIsServed

LEMMA ServeKeeps == ASSUME IInv, NEW s \in Slot, Serve(s) \/ Lose(s) PROVE IInv'
<1>1. CASE Unauthorized(s)
  BY <1>1, AnsweredKeeps DEF Unauthorized, Pending, deskVars
<1>2. CASE ServeRead(s)
  <2>1. UNCHANGED <<page, view, busy, error, behind>> /\ calls[s] # Free
    BY <1>2 DEF ServeRead, Pending, deskVars
  <2>2. CASE calls[s].mounted
    <3>1. PICK seen : calls' = Answered(s, "ok", seen)
      BY <1>2, <2>2 DEF ServeRead
    <3>2. QED
      BY <2>1, <2>2, <3>1, AnsweredKeeps
  <2>3. CASE ~calls[s].mounted
    BY <1>2, <2>1, <2>3, WithoutKeeps DEF ServeRead
  <2>4. QED
    BY <2>2, <2>3
<1>3. CASE ServeAct(s)
  BY <1>3, ServeActKeeps
<1>4. CASE RefuseAct(s)
  BY <1>4, AnsweredKeeps DEF RefuseAct, Pending, deskVars
<1>5. CASE Lose(s)
  BY <1>5, AnsweredKeeps DEF Lose, deskVars
<1>6. QED
  BY <1>1, <1>2, <1>3, <1>4, <1>5 DEF Serve

\* What an answer is the answer to.
LEMMA StatusOf ==
  ASSUME IInv, NEW s \in Slot, Status(s) # "none"
  PROVE  /\ calls[s] # Free /\ calls[s].served /\ IsCall(calls[s])
         /\ Status(s) = calls[s].answer.status
         /\ ~calls[s].mounted /\ calls[s].kind # "act" => Status(s) = "unauthorized"
         /\ page # LoginPage /\ calls[s].mounted => Fits(calls[s])
  BY DEF Status, IInv, AllKept, Kept, Forgotten, PageIsServed, Mounted

LEMMA ReceiveUnauthorizedKeeps ==
  ASSUME IInv, NEW s \in Slot, ReceiveUnauthorized(s)
  PROVE  IInv'
<1>1. AllKept(Without(s))
  BY WithoutIsKept DEF IInv
<1>2. CASE page # LoginPage
  BY <1>1, <1>2, MountKeeps DEF ReceiveUnauthorized
<1>3. CASE page = LoginPage
  BY <1>1, <1>3 DEF ReceiveUnauthorized, IInv, PageIsServed
<1>4. QED
  BY <1>2, <1>3

LEMMA ReceiveMeKeeps == ASSUME IInv, NEW s \in Slot, ReceiveMe(s) PROVE IInv'
<1>1. AllKept(Without(s))
  BY WithoutIsKept DEF IInv
<1>2. CASE Status(s) = "ok"
  BY <1>1, <1>2, MountKeeps DEF ReceiveMe
<1>3. CASE Status(s) = "lost"
  <2>1. page' = page /\ calls' = Without(s) /\ calls[s].kind = "me"
    BY <1>3 DEF ReceiveMe
  <2>2. page = LoginPage
    <3>1. Status(s) # "none" /\ Status(s) # "unauthorized"
      BY <1>3
    <3>2. calls[s].mounted
      BY <2>1, <3>1, StatusOf
    <3>3. QED
      BY <2>1, <3>1, <3>2, StatusOf DEF Fits
  <2>3. QED
    BY <1>1, <2>1, <2>2 DEF IInv, PageIsServed
<1>4. QED
  BY <1>2, <1>3 DEF ReceiveMe

\* Of a page that does not poll, what is received is the last there was.
LEMMA NoneLeft ==
  ASSUME IInv, NEW s \in Slot, Mounted(calls[s]), page # LoginPage, ~Polls, NEW r \in Slot
  PROVE  ~Mounted(Without(s)[r])
  BY WithoutIsKept, FreeIsNoCall DEF IInv, PageIsServed, OneCall

LEMMA ReceiveReadKeeps == ASSUME IInv, NEW s \in Slot, ReceiveRead(s) PROVE IInv'
<1>1. /\ calls[s].kind \in {"load", "reload"} /\ calls[s].mounted /\ Mounted(calls[s])
      /\ calls[s].served /\ calls' = Without(s) /\ page' = page
      /\ behind' = ~calls[s].fresh /\ busy' = (busy /\ calls[s].kind # "reload")
  BY StatusOf DEF ReceiveRead, Mounted
<1>2. AllKept(calls') /\ \A r \in Slot : calls'[r] \in {Free, calls[r]}
  BY <1>1, WithoutIsKept DEF IInv
<1>3. ASSUME page # LoginPage PROVE PageIsServed'
  <2>1. Fits(calls[s])
    BY <1>1, <1>3 DEF IInv, PageIsServed
  <2>2. ~behind'
    BY <1>1, <2>1 DEF Fits
  <2>3. CASE ~Polls
    <3>1. \A r \in Slot : ~Mounted(calls'[r])
      BY <1>1, <1>3, <2>3, NoneLeft
    <3>2. QED
      BY <2>2, <3>1 DEF PageIsServed, OneCall
  <2>4. CASE Polls
    <3>1. Polls'
      BY <1>1, <2>4 DEF Polls
    <3>2. \A r \in Slot : Mounted(calls'[r]) => Mounted(calls[r]) /\ calls'[r] = calls[r]
      BY <1>2, FreeIsNoCall
    <3>3. \A r \in Slot : Mounted(calls'[r]) => Fits(calls[r])'
      BY <1>3, <2>4, <3>1, <3>2 DEF IInv, PageIsServed, Fits
    <3>4. QED
      BY <2>2, <3>1, <3>3 DEF PageIsServed, OneCall
  <2>5. QED
    BY <2>3, <2>4
<1>4. QED
  BY <1>1, <1>2, <1>3 DEF IInv, PageIsServed

LEMMA ReceiveFailureKeeps == ASSUME IInv, NEW s \in Slot, ReceiveFailure(s) PROVE IInv'
<1>1. /\ calls[s].mounted /\ Mounted(calls[s]) /\ calls' = Without(s)
      /\ UNCHANGED <<page, view>> /\ error' = TRUE
      /\ busy' = (busy /\ calls[s].kind = "load") /\ IsCall(calls[s])
  BY StatusOf DEF ReceiveFailure, Mounted
<1>2. AllKept(calls') /\ \A r \in Slot : calls'[r] \in {Free, calls[r]}
  BY <1>1, WithoutIsKept DEF IInv
<1>3. ASSUME page # LoginPage PROVE PageIsServed'
  <2>1. CASE ~Polls
    <3>1. \A r \in Slot : ~Mounted(calls'[r])
      BY <1>1, <1>3, <2>1, NoneLeft
    <3>2. QED
      BY <1>1, <3>1 DEF PageIsServed, OneCall
  <2>2. CASE Polls
    <3>1. Polls'
      BY <1>1, <2>2 DEF Polls
    <3>2. \A r \in Slot : Mounted(calls'[r]) => Mounted(calls[r]) /\ calls'[r] = calls[r]
      BY <1>2, FreeIsNoCall
    <3>3. \A r \in Slot : Mounted(calls'[r]) => Fits(calls[r])'
      BY <1>3, <2>2, <3>1, <3>2 DEF IInv, PageIsServed, Fits
    <3>4. QED
      BY <1>1, <3>1, <3>3 DEF PageIsServed, OneCall
  <2>3. QED
    BY <2>1, <2>2
<1>4. QED
  BY <1>1, <1>2, <1>3 DEF IInv, PageIsServed

\* The page is read again after an act; its buttons stay off until then.
LEMMA ReceiveActKeeps == ASSUME IInv, NEW s \in Slot, ReceiveAct(s) PROVE IInv'
<1>1. /\ calls[s].kind = "act" /\ calls[s].mounted /\ Mounted(calls[s])
      /\ calls' = [calls EXCEPT ![s] = NewCall("reload", page, NoAct, token)]
      /\ UNCHANGED <<page, view, error, busy, behind>>
  BY StatusOf DEF ReceiveAct, Mounted
<1>2. PICK c : c = NewCall("reload", page, NoAct, token)
  OBVIOUS
<1>3. Kept(c) /\ c.kind = "reload" /\ ~c.served
  BY <1>2, NewCallIsKept DEF Kinds
<1>4. calls' = [r \in Slot |-> IF r = s THEN c ELSE calls[r]]
  BY <1>1, <1>2 DEF IInv, AllKept
<1>5. ASSUME page # LoginPage PROVE PageIsServed'
  <2>1. busy /\ ~Polls /\ \A r \in Slot : Mounted(calls[r]) => r = s
    BY <1>1, <1>5 DEF IInv, PageIsServed, Fits, OneCall
  <2>2. busy' /\ ~Polls'
    BY <1>1, <2>1 DEF Polls
  <2>3. \A r \in Slot : Mounted(calls'[r]) => r = s
    BY <1>4, <2>1
  <2>4. \A r \in Slot : Mounted(calls'[r]) => Fits(calls[r])'
    BY <1>3, <1>4, <2>2, <2>3 DEF Fits
  <2>5. QED
    BY <2>2, <2>3, <2>4 DEF PageIsServed, OneCall
<1>6. AllKept(calls')
  BY <1>3, <1>4 DEF IInv, AllKept
<1>7. QED
  BY <1>1, <1>5, <1>6 DEF IInv, PageIsServed

LEMMA ReceiveOwnRevocationKeeps ==
  ASSUME IInv, NEW s \in Slot, ReceiveOwnRevocation(s)
  PROVE  IInv'
<1>1. AllKept(Without(s))
  BY WithoutIsKept DEF IInv
<1>2. CASE page # LoginPage
  BY <1>1, <1>2, MountKeeps DEF ReceiveOwnRevocation
<1>3. CASE page = LoginPage
  BY <1>3, WithoutKeeps DEF ReceiveOwnRevocation
<1>4. QED
  BY <1>2, <1>3

LEMMA ReceiveKeeps == ASSUME IInv, NEW s \in Slot, Receive(s) PROVE IInv'
<1>1. CASE ReceiveTooLate(s)
  BY <1>1, WithoutKeeps DEF ReceiveTooLate, deskVars
<1>2. QED
  BY <1>1, ReceiveUnauthorizedKeeps, ReceiveMeKeeps, ReceiveReadKeeps, ReceiveFailureKeeps,
     ReceiveActKeeps, ReceiveOwnRevocationKeeps DEF Receive

\* Others on the board, and the text that is typed, change no page by themselves.
LEMMA OthersKeep ==
  ASSUME IInv,
         \/ Write
         \/ \E c \in Credential : RevokeElsewhere(c)
         \/ \E t \in Thread :
              \/ RequestRatification(t) \/ SendBackElsewhere(t) \/ CloseByOwner(t)
              \/ \E v \in Version : SelectCandidate(t, v)
  PROVE  IInv'
<1>1. UNCHANGED <<page, view, busy, error, behind, calls>>
  BY DEF Write, RevokeElsewhere, RequestRatification, SendBackElsewhere, CloseByOwner,
     SelectCandidate, OthersMove, deskVars
<1>2. QED
  BY <1>1, UnseenKeeps

LEMMA NextIInv == IInv /\ [Next]_vars => IInv'
<1> SUFFICES ASSUME IInv, [Next]_vars PROVE IInv'
  OBVIOUS
<1>1. AllKept(calls)
  BY DEF IInv
<1>2. ASSUME NEW p \in Pages, Open(p) PROVE IInv'
  BY <1>1, <1>2, MountKeeps DEF Open
<1>3. CASE Logout
  BY <1>1, <1>3, MountKeeps DEF Logout
<1>4. CASE UNCHANGED vars
  BY <1>4, UnseenKeeps DEF vars, deskVars
<1>5. ASSUME NEW s \in Slot, Serve(s) \/ Lose(s) \/ Receive(s) PROVE IInv'
  BY <1>5, ServeKeeps, ReceiveKeeps
<1>6. QED
  BY <1>2, <1>3, <1>4, <1>5, PollKeeps, ActsKeep, LoginKeeps, OthersKeep DEF Next

LEMMA InitIInv == Init => IInv
<1> SUFFICES ASSUME Init PROVE IInv
  OBVIOUS
<1>1. AllKept(calls)
  BY FreeIsNoCall DEF Init, AllKept
<1>2. QED
  BY <1>1 DEF Init, IInv, PageIsServed

\* With any number of pages and calls, and whatever is lost: once the buttons of a
\* page are on again after an act and no error is shown, the page shows the board
\* as it was at or after the act (the reading that ends every act, web/src/pages).
THEOREM OwnActsAreShown == Spec => []OwnActIsShown
<1>1. IInv => OwnActIsShown
  BY DEF IInv, PageIsServed, OwnActIsShown
<1>2. QED
  BY <1>1, InitIInv, NextIInv, PTL DEF Spec

-----------------------------------------------------------------------------
(* Types. *)

\* An act names what the board looks up when it serves it.
Known(act) == act.name \in Acts /\ (act.name # "revoke" => act.on \in Thread)

Typed(c) ==
  c # Free => c.page \in Pages \cup {LoginPage} /\ (c.kind = "act" => Known(c.act))

TypeInv == TypeOK /\ \A s \in Slot : Typed(calls[s])

\* What a call asks, and for which page, does not change while it is under way.
Same(c, d) == c # Free => d # Free /\ c.kind = d.kind /\ c.page = d.page /\ c.act = d.act

LEMMA SameIsTyped == \A c, d : Same(c, d) /\ Typed(d) => Typed(c)
  BY DEF Same, Typed

LEMMA UnmountedIsSame == ASSUME NEW c, Kept(c) PROVE Same(Unmounted(c), c)
<1>1. CASE Unmounted(c) = Free
  BY <1>1 DEF Same
<1>2. CASE Unmounted(c) # Free
  <2>1. c # Free /\ IsCall(c) /\ Unmounted(c) = [c EXCEPT !.mounted = FALSE]
    BY <1>2 DEF Unmounted, Kept
  <2> DEFINE d == [c EXCEPT !.mounted = FALSE]
  <2>2. d.kind = c.kind /\ d.page = c.page /\ d.act = c.act
    BY <2>1 DEF IsCall
  <2> QED BY <2>1, <2>2 DEF Same
<1> QED BY <1>1, <1>2

LEMMA WithoutIsSame ==
  ASSUME AllKept(calls), NEW s \in Slot
  PROVE  \A r \in Slot : Same(Without(s)[r], calls[r])
<1>1. \A r \in Slot : Without(s)[r] = Free \/ Without(s)[r] = calls[r]
  BY WithoutIsKept
<1> QED BY <1>1 DEF Same

LEMMA AnsweredIsSame ==
  ASSUME AllKept(calls), NEW s \in Slot, calls[s] # Free, NEW status, NEW seen
  PROVE  \A r \in Slot : Same(Answered(s, status, seen)[r], calls[r])
<1> DEFINE answer == [status |-> status, seen |-> seen]
           c == [calls[s] EXCEPT !.served = TRUE, !.fresh = TRUE, !.answer = answer]
<1>1. IsCall(calls[s])
  BY DEF AllKept, Kept
<1>2. c.kind = calls[s].kind /\ c.page = calls[s].page /\ c.act = calls[s].act
  <2> HIDE DEF answer
  <2> QED BY <1>1 DEF IsCall
<1>3. Answered(s, status, seen) = [r \in Slot |-> IF r = s THEN c ELSE calls[r]]
  BY DEF AllKept, Answered
<1> HIDE DEF c
<1> QED BY <1>2, <1>3 DEF Same

LEMMA NewCallIsTyped ==
  ASSUME NEW kind \in Kinds, NEW p \in Pages \cup {LoginPage}, NEW act, NEW credential,
         kind = "act" => Known(act)
  PROVE  Typed(NewCall(kind, p, act, credential))
<1>1. /\ NewCall(kind, p, act, credential).kind = kind
      /\ NewCall(kind, p, act, credential).page = p
      /\ NewCall(kind, p, act, credential).act = act
  BY DEF NewCall
<1> QED BY <1>1 DEF Typed

\* A step after which each call is one there was, or a new one.
LEMMA NewIsTyped ==
  ASSUME TypeInv, AllKept(calls), NEW s, NEW c, Typed(c), calls' = [calls EXCEPT ![s] = c]
  PROVE  \A r \in Slot : Typed(calls[r])'
<1>1. \A r \in Slot : calls'[r] = IF r = s THEN c ELSE calls[r]
  BY DEF AllKept
<1> QED BY <1>1 DEF TypeInv

\* A page that is opened is one of the pages, and so are those of the calls left.
LEMMA MountIsTyped ==
  ASSUME NEW p \in Pages \cup {LoginPage}, NEW left, AllKept(left), Mount(p, left),
         \A s \in Slot : Typed(left[s])
  PROVE  /\ page' = p /\ {error', busy', behind'} \subseteq BOOLEAN
         /\ draft' \in [text : BOOLEAN, taken : BOOLEAN]
         /\ \A s \in Slot : Typed(calls[s])'
<1> DEFINE gone == [s \in Slot |-> Unmounted(left[s])]
<1>1. \A s \in Slot : Typed(gone[s])
  BY UnmountedIsSame, SameIsTyped DEF AllKept
<1>2. /\ page' = p /\ {error', busy', behind'} \subseteq BOOLEAN
      /\ draft' \in [text : BOOLEAN, taken : BOOLEAN]
  BY DEF Mount, NoDraft
<1>3. CASE p = LoginPage
  <2>1. calls' = gone
    BY <1>3 DEF Mount
  <2> HIDE DEF gone
  <2> QED BY <1>1, <1>2, <2>1
<1>4. CASE p # LoginPage
  <2>1. PICK n : calls' = [gone EXCEPT ![n] = NewCall("load", p, NoAct, token)]
    BY <1>4 DEF Mount
  <2>2. PICK load : load = NewCall("load", p, NoAct, token)
    OBVIOUS
  <2>3. Typed(load)
    BY <2>2, NewCallIsTyped DEF Kinds
  <2>4. calls' = [s \in Slot |-> IF s = n THEN load ELSE gone[s]]
    BY <2>1, <2>2
  <2> HIDE DEF gone
  <2>5. \A s \in Slot : Typed(calls'[s])
    BY <1>1, <2>3, <2>4
  <2> QED BY <1>2, <2>5
<1> QED BY <1>3, <1>4

\* What the board is after an act that it accepts.
LEMMA ServeActIsTyped ==
  ASSUME TypeInv, IInv, NEW s \in Slot, ServeAct(s)
  PROVE  TypeInv'
<1> DEFINE act == calls[s].act
<1>1. /\ AllKept(calls) /\ calls[s] # Free /\ calls[s].kind = "act" /\ IsCall(calls[s])
      /\ Accepted(act)
  BY DEF IInv, ServeAct, Pending, AllKept, Kept
<1>2. Known(act)
  BY <1>1 DEF TypeInv, Typed
<1>3. board' \in [Thread -> [state : States, candidate : Version \cup {None}]]
  <2>1. CASE act.name \in {"revoke", "post"}
    BY <2>1 DEF ServeAct, TypeInv, TypeOK
  <2>2. CASE act.name \notin {"revoke", "post"}
    <3>1. act.on \in Thread /\ StateAfter(act) \in States
      BY <1>2, <2>2 DEF Known, Acts, StateAfter, States
    <3>2. board' = [board EXCEPT ![act.on].state = StateAfter(act)]
      BY <2>2 DEF ServeAct
    <3> HIDE DEF act
    <3> QED BY <3>1, <3>2 DEF TypeInv, TypeOK
  <2> QED BY <2>1, <2>2
<1>4. live' \subseteq Credential /\ unseen' \in BOOLEAN /\ behind' \in BOOLEAN
  BY <1>1 DEF ServeAct, TypeInv, TypeOK, IsCall
<1>5. draft' \in [text : BOOLEAN, taken : BOOLEAN]
  BY DEF ServeAct, TypeInv, TypeOK
<1>6. \A r \in Slot : Same(calls'[r], calls[r])
  <2> SUFFICES ASSUME NEW r \in Slot PROVE Same(calls'[r], calls[r])
    OBVIOUS
  <2>1. CASE r = s
    <3>1. calls'[r] = Answered(s, "ok", None)[r]
      BY <2>1 DEF ServeAct
    <3> QED BY <1>1, <3>1, AnsweredIsSame
  <2>2. CASE r # s
    <3>1. calls'[r] = calls[r] \/ (calls[r] # Free /\ calls'[r] = [calls[r] EXCEPT !.fresh = FALSE])
      BY <2>2 DEF ServeAct
    <3>2. calls[r] = Free \/ IsCall(calls[r])
      BY <1>1 DEF AllKept, Kept
    <3> DEFINE c == calls[r]
               d == [c EXCEPT !.fresh = FALSE]
    <3>3. IsCall(c) => d.kind = c.kind /\ d.page = c.page /\ d.act = c.act
      BY DEF IsCall
    <3> QED BY <3>1, <3>2, <3>3 DEF Same
  <2> QED BY <2>1, <2>2
<1>7. \A r \in Slot : Typed(calls[r])'
  BY <1>6, SameIsTyped DEF TypeInv, Typed
<1> QED BY <1>3, <1>4, <1>5, <1>7 DEF ServeAct, TypeInv, TypeOK, Typed

\* A step of a call alone.
LEMMA SameKeeps ==
  ASSUME TypeInv, UNCHANGED <<deskVars, boardVars, behind, moves>>, losses' \in 0 .. MaxLosses,
         \A r \in Slot : Same(calls'[r], calls[r])
  PROVE  TypeInv'
<1>1. \A r \in Slot : Typed(calls[r])'
  BY SameIsTyped DEF TypeInv, Typed
<1> QED BY <1>1 DEF TypeInv, TypeOK, Typed, deskVars, boardVars

LEMMA ServeIsTyped ==
  ASSUME TypeInv, IInv, NEW s \in Slot, Serve(s) \/ Lose(s)
  PROVE  TypeInv'
<1>1. AllKept(calls) /\ losses \in 0 .. MaxLosses /\ MaxLosses \in Nat
  BY DeskConstants DEF IInv, TypeInv, TypeOK
<1>2. CASE Unauthorized(s) \/ RefuseAct(s)
  <2>1. calls[s] # Free /\ \E status : calls' = Answered(s, status, None)
    BY <1>2 DEF Unauthorized, RefuseAct, Pending
  <2>2. \A r \in Slot : Same(calls'[r], calls[r])
    BY <1>1, <2>1, AnsweredIsSame
  <2> QED BY <1>1, <1>2, <2>2, SameKeeps DEF Unauthorized, RefuseAct
<1>3. CASE ServeRead(s)
  <2>1. calls[s] # Free /\ ((\E seen : calls' = Answered(s, "ok", seen)) \/ calls' = Without(s))
    BY <1>3 DEF ServeRead, Pending
  <2>2. \A r \in Slot : Same(calls'[r], calls[r])
    BY <1>1, <2>1, AnsweredIsSame, WithoutIsSame
  <2> QED BY <1>1, <1>3, <2>2, SameKeeps DEF ServeRead
<1>4. CASE ServeAct(s)
  BY <1>4, ServeActIsTyped
<1>5. CASE Lose(s)
  <2>1. calls[s] # Free /\ calls' = Answered(s, "lost", None) /\ losses' \in 0 .. MaxLosses
    BY <1>1, <1>5 DEF Lose
  <2>2. \A r \in Slot : Same(calls'[r], calls[r])
    BY <1>1, <2>1, AnsweredIsSame
  <2> QED BY <1>5, <2>1, <2>2, SameKeeps DEF Lose
<1> QED BY <1>2, <1>3, <1>4, <1>5 DEF Serve

\* Taking the call s out leaves the others as they are.
LEMMA WithoutIsTyped ==
  ASSUME TypeInv, IInv, NEW s \in Slot
  PROVE  AllKept(Without(s)) /\ \A r \in Slot : Typed(Without(s)[r])
  BY WithoutIsKept, WithoutIsSame, SameIsTyped DEF TypeInv, IInv

LEMMA ReceiveIsTyped ==
  ASSUME TypeInv, IInv, NEW s \in Slot, Receive(s)
  PROVE  TypeInv'
<1>1. /\ AllKept(calls) /\ AllKept(Without(s)) /\ \A r \in Slot : Typed(Without(s)[r])
  BY WithoutIsTyped DEF IInv
<1>2. {[name |-> "dashboard", thread |-> None], LoginPage} \subseteq Pages \cup {LoginPage}
  BY DeskConstants DEF Pages
<1>3. ASSUME NEW p \in Pages \cup {LoginPage}, Mount(p, Without(s)),
             token' \in Credential \cup {None}, UNCHANGED <<boardVars, moves, losses>>
      PROVE  TypeInv'
  BY <1>1, <1>3, MountIsTyped DEF TypeInv, TypeOK, Typed, boardVars
<1>4. ASSUME calls' = Without(s), UNCHANGED <<boardVars, page, moves, losses>>,
             token' \in Credential \cup {None}, {error', busy', behind'} \subseteq BOOLEAN,
             draft' \in [text : BOOLEAN, taken : BOOLEAN]
      PROVE  TypeInv'
  BY <1>1, <1>4 DEF TypeInv, TypeOK, Typed, boardVars
<1>5. /\ {error, busy, behind} \subseteq BOOLEAN /\ token \in Credential \cup {None}
      /\ draft \in [text : BOOLEAN, taken : BOOLEAN] /\ page \in Pages \cup {LoginPage}
      /\ NoDraft \in [text : BOOLEAN, taken : BOOLEAN]
  BY DEF TypeInv, TypeOK, NoDraft
<1>6. Status(s) # "none" => IsCall(calls[s])
  BY StatusOf
<1>7. CASE ReceiveUnauthorized(s)
  BY <1>2, <1>3, <1>4, <1>5, <1>7 DEF ReceiveUnauthorized
<1>8. CASE ReceiveMe(s)
  <2>1. CASE Status(s) = "ok"
    BY <1>2, <1>3, <1>5, <1>8, <2>1 DEF ReceiveMe
  <2>2. CASE Status(s) = "lost"
    BY <1>4, <1>5, <1>8, <2>2 DEF ReceiveMe
  <2> QED BY <1>8, <2>1, <2>2 DEF ReceiveMe
<1>9. CASE ReceiveRead(s)
  BY <1>4, <1>5, <1>6, <1>9 DEF ReceiveRead, IsCall
<1>10. CASE ReceiveFailure(s)
  BY <1>4, <1>5, <1>10 DEF ReceiveFailure
<1>11. CASE ReceiveAct(s)
  <2>1. PICK c : c = NewCall("reload", page, NoAct, token)
    OBVIOUS
  <2>2. Typed(c) /\ calls' = [calls EXCEPT ![s] = c]
    BY <1>5, <1>11, <2>1, NewCallIsTyped DEF Kinds, ReceiveAct
  <2>3. \A r \in Slot : Typed(calls[r])'
    BY <1>1, <2>2, NewIsTyped
  <2> QED BY <1>5, <1>11, <2>3 DEF ReceiveAct, TypeInv, TypeOK, Typed, boardVars
<1>12. CASE ReceiveOwnRevocation(s)
  BY <1>2, <1>3, <1>4, <1>5, <1>12 DEF ReceiveOwnRevocation
<1>13. CASE ReceiveTooLate(s)
  BY <1>4, <1>5, <1>13 DEF ReceiveTooLate, deskVars
<1> QED
  BY <1>7, <1>8, <1>9, <1>10, <1>11, <1>12, <1>13 DEF Receive

\* An act names a thread of the page, or a credential.
LEMMA AskedIsTyped ==
  ASSUME TypeInv, IInv, NEW name \in Acts, NEW on, NEW shown, Asked(name, on, shown),
         name # "revoke" => on \in Thread, UNCHANGED draft
  PROVE  TypeInv'
<1> DEFINE act == [name |-> name, on |-> on, shown |-> shown]
<1>1. Known(act)
  BY DEF Known
<1>2. PICK c : c = NewCall("act", page, act, token)
  OBVIOUS
<1>3. page \in Pages \cup {LoginPage}
  BY DEF TypeInv, TypeOK
<1>4. Typed(c) /\ calls' = [calls EXCEPT ![NextSlot] = c]
  BY <1>1, <1>2, <1>3, NewCallIsTyped DEF Kinds, Asked
<1>5. \A r \in Slot : Typed(calls[r])'
  BY <1>4, NewIsTyped DEF IInv
<1> QED BY <1>5 DEF Asked, TypeInv, TypeOK, Typed, boardVars

LEMMA ThreadPages ==
  ASSUME TypeOK, page.name = "thread"
  PROVE  page.thread \in Thread
  BY DeskConstants DEF TypeOK, Pages, LoginPage

LEMMA ActsAreTyped ==
  ASSUME TypeInv, IInv,
         \/ \E kind \in {"ratify", "send_back", "reject_thread", "complete_thread"} : Declare(kind)
         \/ Submit
         \/ \E t \in Thread : CompleteFromInbox(t)
         \/ \E c \in Credential : RevokeCredential(c)
  PROVE  TypeInv'
<1>1. ASSUME NEW kind \in {"ratify", "send_back", "reject_thread", "complete_thread"},
             Declare(kind)
      PROVE  TypeInv'
  BY <1>1, AskedIsTyped, ThreadPages DEF Declare, CallAct, Acts, TypeInv
<1>2. CASE Submit
  BY <1>2, AskedIsTyped, ThreadPages DEF Submit, SendPost, CanCompose, Acts, TypeInv
<1>3. ASSUME NEW t \in Thread, CompleteFromInbox(t) PROVE TypeInv'
  BY <1>3, AskedIsTyped DEF CompleteFromInbox, CallAct, Acts
<1>4. ASSUME NEW c \in Credential, RevokeCredential(c) PROVE TypeInv'
  BY <1>4, AskedIsTyped DEF RevokeCredential, CallAct, Acts
<1> QED BY <1>1, <1>2, <1>3, <1>4

\* What others do on the board, and what is typed.
LEMMA OthersAreTyped ==
  ASSUME TypeInv,
         \/ Write
         \/ \E c \in Credential : RevokeElsewhere(c)
         \/ \E t \in Thread :
              \/ RequestRatification(t) \/ SendBackElsewhere(t) \/ CloseByOwner(t)
              \/ \E v \in Version : SelectCandidate(t, v)
  PROVE  TypeInv'
<1> DEFINE Row == [state : States, candidate : Version \cup {None}]
<1>1. CASE Write
  BY <1>1 DEF Write, TypeInv, TypeOK, Typed, boardVars
<1>2. MaxMoves \in Nat /\ moves \in 0 .. MaxMoves
  BY DeskConstants DEF TypeInv, TypeOK
<1>3. ASSUME NEW c \in Credential, RevokeElsewhere(c) PROVE TypeInv'
  BY <1>2, <1>3 DEF RevokeElsewhere, TypeInv, TypeOK, Typed, deskVars
<1>4. ASSUME NEW t \in Thread, NEW changed \in Row, OthersMove(t, changed) PROVE TypeInv'
  BY <1>2, <1>4 DEF OthersMove, TypeInv, TypeOK, Typed, deskVars
<1>5. ASSUME NEW t \in Thread
      PROVE  /\ \A v \in Version : [board[t] EXCEPT !.candidate = v] \in Row
             /\ \A state \in States : [board[t] EXCEPT !.state = state] \in Row
  BY <1>5 DEF TypeInv, TypeOK
<1>6. {"discussing", "awaiting_decision", "rejected", "completed"} \subseteq States
  BY DEF States
<1>7. ASSUME NEW t \in Thread,
             \/ RequestRatification(t) \/ SendBackElsewhere(t) \/ CloseByOwner(t)
             \/ \E v \in Version : SelectCandidate(t, v)
      PROVE  \E changed \in Row : OthersMove(t, changed)
  BY <1>5, <1>6, <1>7 DEF RequestRatification, SendBackElsewhere, CloseByOwner, SelectCandidate
<1> QED BY <1>1, <1>3, <1>4, <1>7

LEMMA PollIsTyped == ASSUME TypeInv, IInv, Poll PROVE TypeInv'
<1>1. PICK c : c = NewCall("load", page, NoAct, token)
  OBVIOUS
<1>2. Typed(c)
  BY <1>1, NewCallIsTyped DEF Kinds, TypeInv, TypeOK
<1>3. \A r \in Slot : Typed(calls[r])'
  BY <1>1, <1>2, NewIsTyped DEF Poll, IInv
<1> QED BY <1>3 DEF Poll, TypeInv, TypeOK, Typed, deskVars, boardVars

LEMMA LoginIsTyped == ASSUME TypeInv, IInv, NEW c \in Credential, completeLogin(c) PROVE TypeInv'
<1>1. PICK call : call = NewCall("me", page, NoAct, c)
  OBVIOUS
<1>2. Typed(call)
  BY <1>1, NewCallIsTyped DEF Kinds, TypeInv, TypeOK
<1>3. \A r \in Slot : Typed(calls[r])'
  BY <1>1, <1>2, NewIsTyped DEF completeLogin, IInv
<1> QED BY <1>3 DEF completeLogin, TypeInv, TypeOK, Typed, boardVars

LEMMA NextTypeInv == TypeInv /\ IInv /\ [Next]_vars => TypeInv'
<1> SUFFICES ASSUME TypeInv, IInv, [Next]_vars PROVE TypeInv'
  OBVIOUS
<1>1. AllKept(calls) /\ \A s \in Slot : Typed(calls[s])
  BY DEF IInv, TypeInv
<1>2. ASSUME NEW p \in Pages, Open(p) PROVE TypeInv'
  BY <1>1, <1>2, MountIsTyped DEF Open, TypeInv, TypeOK, Typed, boardVars
<1>3. CASE Logout
  BY <1>1, <1>3, MountIsTyped DEF Logout, TypeInv, TypeOK, Typed, boardVars
<1>4. CASE UNCHANGED vars
  BY <1>4 DEF vars, deskVars, boardVars, TypeInv, TypeOK, Typed
<1>5. ASSUME NEW s \in Slot, Serve(s) \/ Lose(s) \/ Receive(s) PROVE TypeInv'
  BY <1>5, ServeIsTyped, ReceiveIsTyped
<1> QED
  BY <1>2, <1>3, <1>4, <1>5, PollIsTyped, ActsAreTyped, LoginIsTyped, OthersAreTyped DEF Next

LEMMA InitTypeInv == Init => TypeInv
<1> SUFFICES ASSUME Init PROVE TypeInv
  OBVIOUS
<1>1. Met \subseteq [state : States, candidate : Version \cup {None}]
  BY DEF Met, States
<1>2. board \in [Thread -> [state : States, candidate : Version \cup {None}]]
  BY <1>1 DEF Init
<1>3. \A s \in Slot : calls[s] = Free
  BY DEF Init
<1>4. /\ live \subseteq Credential /\ page \in Pages \cup {LoginPage}
      /\ token \in Credential \cup {None} /\ moves \in 0 .. MaxMoves /\ losses \in 0 .. MaxLosses
  BY DeskConstants DEF Init
<1>5. draft \in [text : BOOLEAN, taken : BOOLEAN]
  BY DEF Init, NoDraft
<1>6. error \in BOOLEAN /\ busy \in BOOLEAN /\ behind \in BOOLEAN /\ unseen \in BOOLEAN
  BY DEF Init
<1> QED BY <1>2, <1>3, <1>4, <1>5, <1>6 DEF TypeInv, TypeOK, Typed

\* Board, page and calls keep their types: what an act names when it is served is
\* a thread of the board, whichever pages were opened since (schema.ts, web/src).
THEOREM TypeCorrect == Spec => []TypeOK
<1>1. TypeInv => TypeOK
  BY DEF TypeInv
<1> QED
  BY <1>1, InitIInv, NextIInv, InitTypeInv, NextTypeInv, PTL DEF Spec
=============================================================================
