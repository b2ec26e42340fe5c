---------------------------- MODULE PolicyFrame ----------------------------
(***************************************************************************)
(* frontend api/frame and api/frame/tx: the policy compiler behind a       *)
(* Farcaster frame. Each POST is answered with a frame; the next request   *)
(* is whatever button of that frame is pressed, or a POST made by hand to  *)
(* an address of anybody's writing: neither route checks the root and the  *)
(* hours its address names.                                                *)
(*                                                                         *)
(* Of a text only whether it is empty is kept: the compiler may answer the *)
(* same text differently each time. Images are named by what they report.  *)
(***************************************************************************)
EXTENDS PolicyCompiler

CONSTANTS
  WideAnswers,   \* what the language model may answer to an intent
  NoTarget,      \* the root of a request that names none
  HandRoots,     \* the roots that an address written by hand may name
  HandHours      \* what its two hours may read as: any number, or none

ASSUME FrameAssumption == WideAnswers \subseteq ParseToolInput

VARIABLES
  frame,   \* the frame on display
  offer    \* the transaction the last answer asks the wallet to sign, if it does

frameVars == <<frame, offer>>

\* What each answer compiles to.
Compiled == [a \in WideAnswers |-> CompilePolicy(a)]

Screens == {"home", "status", "compile", "conflicts", "register"}

\* A button that posts to the frame's own post_url, or with a target: a link
\* out, or the root and hours of a policy to register or to sign. `hand` is not in
\* the code: it marks a target that comes from an address written by hand.
Button(kind, root, start, end, hand) ==
  [kind |-> kind, root |-> root, start |-> start, end |-> end, hand |-> hand]
Plain == Button("post", NoTarget, 0, 24, FALSE)
Link == Button("link", NoTarget, 0, 24, FALSE)

HandTargets == [root : HandRoots, start : HandHours, end : HandHours]
Written(t) == Button("post", t.root, t.start, t.end, TRUE)

\* frameHtml: post_url is the screen's; `of` is the answer the image sums up.
FrameHtml(image, of, screen, input, buttons) ==
  [image |-> image, of |-> of, screen |-> screen, input |-> input, buttons |-> buttons]

Home == FrameHtml("home", {}, "home", FALSE, {Plain})
StatusFrame == FrameHtml("status", {}, "status", FALSE, {Plain, Link})
AskIntent == FrameHtml("ask", {}, "compile", TRUE, {Plain})
Failed == FrameHtml("failed", {}, "compile", TRUE, {Plain})

RegisterButton(p) ==
  Button("register", p.policyRoot, p.constraints.active_hours_start_utc,
         p.constraints.active_hours_end_utc, FALSE)

\* Mutant of CompiledFrame: a policy with errors is taken for one with conflicts.
CompiledFrameAnyway(answer) ==
  LET p == Compiled[answer]
  IN IF ~Compiles(answer) THEN Failed
     ELSE FrameHtml("summary", {answer}, IF p.conflicts = {} THEN "register" ELSE "conflicts",
                    FALSE, {RegisterButton(p), Plain})

\* Errors end the way to the registration; warnings do not.
CompiledFrame(answer) ==
  LET p == Compiled[answer]
  IN IF ~Compiles(answer) THEN Failed
     ELSE IF ~p.valid THEN FrameHtml("errors", {answer}, "compile", TRUE, {Plain})
     ELSE FrameHtml("summary", {answer}, IF p.conflicts = {} THEN "register" ELSE "conflicts",
                    FALSE, {RegisterButton(p), Plain})

\* The intent is compiled anew for its details; what the image then reports
\* need not be what the summary was about.
ConflictDetails(answer) ==
  IF ~Compiles(answer) THEN FrameHtml("failed", {}, "home", FALSE, {Plain})
  ELSE FrameHtml("details", {answer}, "conflicts", FALSE, {Plain, Link})

RegisterFrame(b) ==
  IF b.root = NoTarget THEN FrameHtml("unconfigured", {}, "home", FALSE, {Link, Plain})
  ELSE FrameHtml("register", {}, "register", FALSE,
                 {Button("tx", b.root, b.start, b.end, b.hand), Link})

\* POST: the frames one request may be answered with.
Post(screen, text, b) ==
  CASE screen = "home" -> {Home}
    [] screen = "status" -> {StatusFrame}
    [] screen = "compile" ->
         IF text THEN {CompiledFrame(a) : a \in WideAnswers} \cup {Failed} ELSE {AskIntent}
    [] screen = "conflicts" ->
         IF text THEN {ConflictDetails(a) : a \in WideAnswers}
                        \cup {FrameHtml("failed", {}, "home", FALSE, {Plain})}
         ELSE {AskIntent}
    [] OTHER -> {RegisterFrame(b)}
-----------------------------------------------------------------------------
\* GET, whatever the address asks for.
FrameInit == frame = Home /\ offer = {}

\* A button without a target posts the text, where the frame has a field for it.
PressPlain ==
  /\ Plain \in frame.buttons
  /\ \E text \in IF frame.input THEN BOOLEAN ELSE {FALSE} :
       frame' \in Post(frame.screen, text, Plain)
  /\ offer' = {}

\* The target carries the screen, the root and the hours.
PressRegister ==
  /\ \E b \in frame.buttons :
       b.kind = "register" /\ frame' \in Post("register", FALSE, b)
  /\ offer' = {}

\* frame/tx copies the root and the hours into the call it has signed. No
\* registry function has that call's name, so it reverts: nothing is registered.
Signing(b) ==
  [root |-> b.root, tier |-> 1, startHour |-> b.start, endHour |-> b.end, hand |-> b.hand]

PressSign ==
  /\ \E b \in frame.buttons : b.kind = "tx" /\ offer' = {Signing(b)}
  /\ UNCHANGED frame

\* The home frame's buttons lead back to it: the other screens are reached by a
\* POST that names them. Only the registration reads the root and the hours of the
\* address.
Visit ==
  /\ \/ \E screen \in Screens, text \in BOOLEAN : frame' \in Post(screen, text, Plain)
     \/ \E t \in HandTargets : frame' \in Post("register", FALSE, Written(t))
  /\ offer' = {}

\* frame/tx answers such a POST too.
VisitTx ==
  /\ \E t \in HandTargets : offer' = {Signing(Written(t))}
  /\ UNCHANGED frame

FrameNext == PressPlain \/ PressRegister \/ PressSign \/ Visit \/ VisitTx

FrameSpec == FrameInit /\ [][FrameNext]_frameVars
-----------------------------------------------------------------------------
\* The policies an image on display speaks of.
OnDisplay == {Compiled[a] : a \in frame.of}

\* What the compiler makes of any answer is within its bounds; each of its
\* leaves can be proved to belong to the root, which is what getPolicyProof and
\* verifyLeaf are for; and the root binds: no other answer that differs in more
\* than its risk profile, the field no leaf holds, has the same root.
CompiledSound ==
  \A p \in OnDisplay :
    /\ p.constraints.max_allocation_per_pool_bps \in 100 .. AllBps
    /\ p.constraints.stop_loss_bps \in 100 .. AllBps
    /\ p.constraints.active_hours_start_utc \in 0 .. 23
    /\ p.constraints.active_hours_end_utc \in 1 .. 24
    /\ p.constraints.allowed_pools # << >>
    /\ \A k \in DOMAIN p.merkleLeaves :
         Verify(Proof(p.merkleLeaves, k), p.merkleLeaves[k], p.policyRoot)
    /\ \A a \in WideAnswers :
         (Compiles(a) /\ Compiled[a].policyRoot = p.policyRoot) =>
           [Compiled[a].constraints EXCEPT !.risk_profile = ""]
             = [p.constraints EXCEPT !.risk_profile = ""]

\* The targets one press away from the wallet, and the one put before it.
Offers ==
  {[root |-> b.root, start |-> b.start, end |-> b.end, hand |-> b.hand] :
     b \in {b \in frame.buttons : b.kind \in {"register", "tx"}}}
  \cup {[root |-> o.root, start |-> o.startHour, end |-> o.endHour, hand |-> o.hand] :
          o \in offer}

\* Along the frame's own buttons, whatever is put before the wallet, or one press
\* away from it, is the root and the window of one error-free policy, and a window
\* the registry accepts. What an address written by hand names is not checked by
\* either route; it is passed on whole, never mixed with a compiled policy.
FrameOffersSound ==
  \A o \in Offers :
    IF o.hand THEN [root |-> o.root, start |-> o.start, end |-> o.end] \in HandTargets
    ELSE /\ o.start < 24 /\ o.end \in 1 .. 24 /\ o.start < o.end
         /\ \E a \in WideAnswers :
              LET p == Compiled[a]
              IN /\ p.valid
                 /\ p.policyRoot = o.root
                 /\ p.constraints.active_hours_start_utc = o.start
                 /\ p.constraints.active_hours_end_utc = o.end
=============================================================================
