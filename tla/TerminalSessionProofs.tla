------------------------ MODULE TerminalSessionProofs ------------------------
(* Machine-checked theorems about TerminalSession: the ranges of its variables *)
(* and that an unknown command runs only after its own prompt was accepted.   *)
EXTENDS TerminalSession, TLAPS

-----------------------------------------------------------------------------
(* Messages in a queue *)

Has(q, kind) == \E i \in 1 .. Len(q) : q[i].kind = kind

\* What a session reads is a command where one is expected.
Typed(q) == \A i \in 1 .. Len(q) : q[i].kind = "execute" => q[i].command \in Commands

\* A user who waits has one command on its way at most, and no acceptance with it.
Waited(q) ==
    /\ \A i, j \in 1 .. Len(q) : q[i].kind = "execute" /\ q[j].kind = "execute" => i = j
    /\ ~(Has(q, "execute") /\ Has(q, "accept"))

\* The first message is read.
LEMMA Read ==
    ASSUME NEW q \in Seq(ToSession), q # <<>>
    PROVE  /\ Head(q) \in ToSession /\ Tail(q) \in Seq(ToSession) /\ Has(q, Head(q).kind)
           /\ \A kind : Has(Tail(q), kind) => Has(q, kind)
           /\ Typed(q) => Typed(Tail(q)) /\ (Head(q).kind = "execute" => Head(q).command \in Commands)
           /\ Waited(q) => /\ Waited(Tail(q))
                           /\ Head(q).kind = "execute" => ~Has(Tail(q), "execute") /\ ~Has(q, "accept")
<1>1. /\ Len(q) \in Nat \ {0} /\ Len(Tail(q)) = Len(q) - 1 /\ Head(q) = q[1]
      /\ \A i \in 1 .. Len(Tail(q)) : Tail(q)[i] = q[i + 1] /\ i + 1 \in 1 .. Len(q) /\ i + 1 # 1
      /\ Head(q) \in ToSession /\ Tail(q) \in Seq(ToSession) /\ 1 \in 1 .. Len(q)
  OBVIOUS
<1>2. Has(q, Head(q).kind) /\ \A kind : Has(Tail(q), kind) => Has(q, kind)
  BY <1>1 DEF Has
<1>3. Typed(q) => Typed(Tail(q)) /\ (Head(q).kind = "execute" => Head(q).command \in Commands)
  BY <1>1 DEF Typed
<1>4. ASSUME Waited(q)
      PROVE  /\ Waited(Tail(q))
             /\ Head(q).kind = "execute" => ~Has(Tail(q), "execute") /\ ~Has(q, "accept")
  <2>1. \A i, j \in 1 .. Len(Tail(q)) : Tail(q)[i].kind = "execute" /\ Tail(q)[j].kind = "execute" => i = j
    BY <1>1, <1>4 DEF Waited
  <2>2. Head(q).kind = "execute" => ~Has(Tail(q), "execute")
    BY <1>1, <1>4 DEF Waited, Has
  <2> QED
    BY <1>2, <1>4, <2>1, <2>2 DEF Waited
<1> QED
  BY <1>1, <1>2, <1>3, <1>4

\* A message is sent.
LEMMA Sent ==
    ASSUME NEW q \in Seq(ToSession), NEW m \in ToSession
    PROVE  /\ Append(q, m) \in Seq(ToSession)
           /\ \A kind : Has(Append(q, m), kind) => Has(q, kind) \/ m.kind = kind
           /\ Typed(q) /\ (m.kind = "execute" => m.command \in Commands) => Typed(Append(q, m))
           /\ /\ Waited(q)
              /\ m.kind = "execute" => q = <<>>
              /\ m.kind = "accept" => ~Has(q, "execute")
              => Waited(Append(q, m))
<1> DEFINE r == Append(q, m)
<1>1. /\ Len(q) \in Nat /\ Len(r) = Len(q) + 1 /\ r[Len(q) + 1] = m /\ r \in Seq(ToSession)
      /\ \A i \in 1 .. Len(q) : r[i] = q[i]
  OBVIOUS
<1>2. \A i \in 1 .. Len(r) : i \in 1 .. Len(q) \/ (i = Len(q) + 1 /\ r[i] = m)
  BY <1>1
<1> HIDE DEF r
<1>3. \A kind : Has(r, kind) => Has(q, kind) \/ m.kind = kind
  BY <1>1, <1>2 DEF Has
<1>4. Typed(q) /\ (m.kind = "execute" => m.command \in Commands) => Typed(r)
  BY <1>1, <1>2 DEF Typed
<1>5. ASSUME Waited(q), m.kind = "execute" => q = <<>>, m.kind = "accept" => ~Has(q, "execute")
      PROVE  Waited(r)
  <2>1. \A i, j \in 1 .. Len(r) : r[i].kind = "execute" /\ r[j].kind = "execute" => i = j
    <3>1. CASE m.kind = "execute"
      <4>1. Len(r) = 1
        BY <1>1, <1>5, <3>1
      <4> QED
        BY <4>1
    <3>2. CASE m.kind # "execute"
      BY <1>1, <1>2, <1>5, <3>2 DEF Waited
    <3> QED
      BY <3>1, <3>2
  <2>2. m.kind = "execute" => ~Has(q, "accept")
    BY <1>5 DEF Has
  <2> QED
    BY <1>3, <1>5, <2>1, <2>2 DEF Waited
<1> QED
  BY <1>1, <1>3, <1>4, <1>5 DEF r

\* The end of what was sent is lost.
LEMMA Kept ==
    ASSUME NEW q \in Seq(ToSession), NEW n \in 0 .. Len(q)
    PROVE  LET r == SubSeq(q, 1, n)
           IN  /\ r \in Seq(ToSession)
               /\ \A kind : Has(r, kind) => Has(q, kind)
               /\ Typed(q) => Typed(r)
               /\ Waited(q) => Waited(r)
<1> DEFINE r == SubSeq(q, 1, n)
<1>1. r \in Seq(ToSession) /\ Len(r) = n /\ \A i \in 1 .. Len(r) : r[i] = q[i] /\ i \in 1 .. Len(q)
  OBVIOUS
<1> HIDE DEF r
<1>2. \A kind : Has(r, kind) => Has(q, kind)
  BY <1>1 DEF Has
<1>3. (Typed(q) => Typed(r)) /\ (Waited(q) => Waited(r))
  BY <1>1, <1>2 DEF Typed, Waited
<1> QED
  BY <1>1, <1>2, <1>3 DEF r

-----------------------------------------------------------------------------
(* The invariant *)

\* A session waits for the confirmation of an unknown command, while it may run
\* another one; later connections have not begun.
SessionInv ==
    /\ TypeOK
    /\ up \/ outbox = <<>>
    /\ \A k \in Sessions :
          /\ Typed(inbox[k])
          /\ confirming[k] => pending[k] \in Unknown /\ current[k] # pending[k]
          /\ k > conn => inbox[k] = <<>> /\ ~confirming[k]

\* The tab shows c, or is about to: no other command can be asked for meanwhile.
AboutPending(c) == ~Has(inbox[conn], "execute") /\ (confirming[conn] => c = pending[conn])

PatientInv ==
    patient =>
        /\ ran \cap Unknown \subseteq accepted
        /\ \A k \in Sessions :
              /\ Waited(inbox[k])
              /\ Has(inbox[k], "accept") /\ confirming[k] => pending[k] \in accepted
        /\ up => /\ prompt # NoCommand => AboutPending(prompt)
                 /\ \A i \in 1 .. Len(outbox) :
                       outbox[i].kind = "prompt" => AboutPending(outbox[i].command)

IInv == SessionInv /\ PatientInv

\* An answer reaches the tab only over the connection of its session.
LEMMA Replied ==
    ASSUME SessionInv, NEW k \in Sessions, NEW ms \in Seq(ToTab), Reply(k, ms)
    PROVE  /\ outbox' \in Seq(ToTab) /\ (up \/ outbox' = <<>>)
           /\ up => \A i \in 1 .. Len(outbox') :
                 \/ \E j \in 1 .. Len(outbox) : outbox'[i] = outbox[j]
                 \/ k = conn /\ \E j \in 1 .. Len(ms) : outbox'[i] = ms[j]
<1>1. outbox \in Seq(ToTab) /\ (up \/ outbox = <<>>)
  BY DEF SessionInv, TypeOK
<1>2. CASE up /\ k = conn
  <2>1. outbox' = outbox \o ms
    BY <1>2 DEF Reply
  <2>2. /\ outbox' \in Seq(ToTab)
        /\ \A i \in 1 .. Len(outbox') :
              \/ i \in 1 .. Len(outbox) /\ outbox'[i] = outbox[i]
              \/ i - Len(outbox) \in 1 .. Len(ms) /\ outbox'[i] = ms[i - Len(outbox)]
    BY <1>1, <2>1
  <2> QED
    BY <1>2, <2>2
<1>3. CASE ~(up /\ k = conn)
  BY <1>1, <1>3 DEF Reply
<1> QED
  BY <1>2, <1>3

\* What the session's steps share: it takes its next message.
LEMMA TakesFacts ==
    ASSUME SessionInv, NEW k \in Sessions, NEW kind, Takes(k), Head(inbox[k]).kind = kind
    PROVE  /\ inbox' \in [Sessions -> Seq(ToSession)]
           /\ inbox'[k] = Tail(inbox[k]) /\ \A j \in Sessions : j # k => inbox'[j] = inbox[j]
           /\ \A j \in Sessions : Typed(inbox'[j]) /\ (Waited(inbox[j]) => Waited(inbox'[j]))
           /\ \A j \in Sessions : \A any : Has(inbox'[j], any) => Has(inbox[j], any)
           /\ k <= conn /\ pc[k] = "reading" /\ current[k] = NoCommand
           /\ Has(inbox[k], kind)
           /\ kind = "execute" => /\ Head(inbox[k]).command \in Commands
                                  /\ Waited(inbox[k]) => ~Has(inbox'[k], "execute") /\ ~Has(inbox[k], "accept")
<1>1. inbox[k] \in Seq(ToSession) /\ inbox[k] # <<>> /\ Head(inbox[k]).kind = kind /\ Typed(inbox[k])
  BY DEF SessionInv, TypeOK, Takes
<1>2. /\ inbox' \in [Sessions -> Seq(ToSession)] /\ inbox'[k] = Tail(inbox[k])
      /\ \A j \in Sessions : j # k => inbox'[j] = inbox[j]
  BY <1>1, Read DEF SessionInv, TypeOK, Takes
<1>3. k <= conn /\ pc[k] = "reading" /\ current[k] = NoCommand
  BY <1>1 DEF SessionInv, TypeOK, Takes, Sessions
<1>4. /\ Typed(Tail(inbox[k])) /\ (Waited(inbox[k]) => Waited(Tail(inbox[k])))
      /\ \A any : Has(Tail(inbox[k]), any) => Has(inbox[k], any)
      /\ Has(inbox[k], kind)
      /\ kind = "execute" => /\ Head(inbox[k]).command \in Commands
                             /\ Waited(inbox[k]) => ~Has(Tail(inbox[k]), "execute") /\ ~Has(inbox[k], "accept")
  BY <1>1, Read
<1>5. \A j \in Sessions : Typed(inbox[j])
  BY DEF SessionInv
<1> QED
  BY <1>2, <1>3, <1>4, <1>5

LEMMA ReadsFacts ==
    ASSUME SessionInv, NEW k \in Sessions, NEW kind, Reads(k, kind)
    PROVE  /\ inbox' \in [Sessions -> Seq(ToSession)]
           /\ inbox'[k] = Tail(inbox[k]) /\ \A j \in Sessions : j # k => inbox'[j] = inbox[j]
           /\ \A j \in Sessions : Typed(inbox'[j]) /\ (Waited(inbox[j]) => Waited(inbox'[j]))
           /\ \A j \in Sessions : \A any : Has(inbox'[j], any) => Has(inbox[j], any)
           /\ k <= conn /\ pc[k] = "reading" /\ current[k] = NoCommand
           /\ Has(inbox[k], kind)
           /\ kind = "execute" => /\ Head(inbox[k]).command \in Commands
                                  /\ Waited(inbox[k]) => ~Has(inbox'[k], "execute") /\ ~Has(inbox[k], "accept")
BY TakesFacts DEF Reads

\* A step that lets no session begin to wait for a confirmation.
LEMMA SessionKept ==
    ASSUME SessionInv, TypeOK', conn' = conn, up' \/ outbox' = <<>>,
           \A k \in Sessions : Typed(inbox'[k]),
           \A k \in Sessions : k > conn => inbox'[k] = inbox[k] /\ confirming'[k] = confirming[k],
           \A k \in Sessions : confirming'[k] =>
               /\ confirming[k] /\ pending'[k] = pending[k]
               /\ current'[k] = current[k] \/ current'[k] \notin Unknown
    PROVE  SessionInv'
<1>1. \A k \in Sessions : Typed(inbox[k])'
  OBVIOUS
<1>2. \A k \in Sessions : k > conn' => inbox'[k] = <<>> /\ ~confirming'[k]
  BY DEF SessionInv
<1>3. \A k \in Sessions : confirming'[k] => pending'[k] \in Unknown /\ current'[k] # pending'[k]
  BY DEF SessionInv
<1> QED
  BY <1>1, <1>2, <1>3 DEF SessionInv

\* A step that asks the user nothing new and is not an answer.
LEMMA PatientKept ==
    ASSUME PatientInv, patient' = patient, conn' = conn, up' => up, accepted' = accepted,
           patient => ran' \cap Unknown \subseteq accepted,
           \A k \in Sessions : Waited(inbox[k]) => Waited(inbox'[k]),
           \A k \in Sessions, kind \in {"execute", "accept"} : Has(inbox'[k], kind) => Has(inbox[k], kind),
           \A k \in Sessions : confirming'[k] => confirming[k] /\ pending'[k] = pending[k],
           conn \in Sessions,
           up' => /\ \/ prompt' \in {NoCommand, prompt}
                     \/ \E i \in 1 .. Len(outbox) : outbox[i].kind = "prompt" /\ prompt' = outbox[i].command
                  /\ \A i \in 1 .. Len(outbox') : outbox'[i].kind = "prompt" =>
                        \E j \in 1 .. Len(outbox) : outbox[j] = outbox'[i]
    PROVE  PatientInv'
<1> SUFFICES ASSUME patient PROVE PatientInv'
  BY DEF PatientInv
<1>1. /\ \A k \in Sessions : /\ Waited(inbox[k])
                             /\ Has(inbox[k], "accept") /\ confirming[k] => pending[k] \in accepted
      /\ up => /\ prompt # NoCommand => AboutPending(prompt)
               /\ \A i \in 1 .. Len(outbox) : outbox[i].kind = "prompt" => AboutPending(outbox[i].command)
  BY DEF PatientInv
<1>2. \A c : AboutPending(c) => ~Has(inbox'[conn'], "execute") /\ (confirming'[conn'] => c = pending'[conn'])
  BY DEF AboutPending
<1>3. \A k \in Sessions : /\ Waited(inbox[k])'
                          /\ Has(inbox'[k], "accept") /\ confirming'[k] => pending'[k] \in accepted'
  BY <1>1
<1>4. ASSUME up'
      PROVE  /\ prompt' # NoCommand =>
                    ~Has(inbox'[conn'], "execute") /\ (confirming'[conn'] => prompt' = pending'[conn'])
             /\ \A i \in 1 .. Len(outbox') : outbox'[i].kind = "prompt" =>
                    ~Has(inbox'[conn'], "execute") /\ (confirming'[conn'] => outbox'[i].command = pending'[conn'])
  <2>1. \A i \in 1 .. Len(outbox) : outbox[i].kind = "prompt" =>
            ~Has(inbox'[conn'], "execute") /\ (confirming'[conn'] => outbox[i].command = pending'[conn'])
    BY <1>1, <1>2, <1>4
  <2>2. prompt # NoCommand =>
            ~Has(inbox'[conn'], "execute") /\ (confirming'[conn'] => prompt = pending'[conn'])
    BY <1>1, <1>2, <1>4
  <2> QED
    BY <1>4, <2>1, <2>2
<1> QED
  BY <1>3, <1>4 DEF PatientInv, AboutPending

-----------------------------------------------------------------------------
(* Steps of the tab *)

LEMMA TabStep ==
    ASSUME IInv, Tab
    PROVE  IInv'
<1> USE CommandsAssumption DEF Sessions
<1>1. TypeOK /\ SessionInv /\ PatientInv /\ conn \in Sessions /\ inbox[conn] \in Seq(ToSession)
  BY DEF IInv, SessionInv, TypeOK
<1>2. ASSUME NEW kind \in {"execute", "accept", "cancel", "interrupt"},
             NEW c \in Commands \cup {NoCommand}, Transmit(kind, c),
             kind = "execute" => c \in Commands
      PROVE  /\ inbox' \in [Sessions -> Seq(ToSession)]
             /\ inbox'[conn] = Append(inbox[conn], Message(kind, c))
             /\ \A k \in Sessions : k # conn => inbox'[k] = inbox[k]
             /\ \A k \in Sessions : Typed(inbox'[k])
             /\ \A k \in Sessions : \A any : Has(inbox'[k], any) => Has(inbox[k], any) \/ (k = conn /\ any = kind)
             /\ Waited(inbox[conn]) /\ (kind = "execute" => inbox[conn] = <<>>)
                   /\ (kind = "accept" => ~Has(inbox[conn], "execute"))
                => Waited(inbox'[conn])
  <2> DEFINE m == Message(kind, c)
  <2>1. m \in ToSession /\ m.kind = kind /\ m.command = c
    BY DEF Message, ToSession
  <2>2. inbox' = [inbox EXCEPT ![conn] = Append(@, m)]
    BY <1>2 DEF Transmit
  <2> HIDE DEF m
  <2>3. /\ Append(inbox[conn], m) \in Seq(ToSession)
        /\ \A any : Has(Append(inbox[conn], m), any) => Has(inbox[conn], any) \/ m.kind = any
        /\ Typed(Append(inbox[conn], m))
        /\ Waited(inbox[conn]) /\ (kind = "execute" => inbox[conn] = <<>>)
              /\ (kind = "accept" => ~Has(inbox[conn], "execute"))
           => Waited(Append(inbox[conn], m))
    BY <1>1, <1>2, <2>1, Sent DEF SessionInv
  <2>4. /\ inbox' \in [Sessions -> Seq(ToSession)] /\ inbox'[conn] = Append(inbox[conn], m)
        /\ \A k \in Sessions : k # conn => inbox'[k] = inbox[k]
    BY <1>1, <2>2, <2>3 DEF TypeOK
  <2>5. \A k \in Sessions : Typed(inbox[k])
    BY <1>1 DEF SessionInv
  <2> QED
    BY <2>1, <2>3, <2>4, <2>5 DEF m
<1>3. ASSUME NEW c \in Commands, SendCommand(c)
      PROVE  IInv'
  <2>1. up /\ Transmit("execute", c) /\ UNCHANGED <<patient, conn, up, prompt, accepted, outbox, registered, sessionVars>>
    BY <1>3 DEF SendCommand
  <2>2. history' \subseteq Commands
    BY <1>1, <1>3 DEF SendCommand, TypeOK
  <2>3. /\ inbox' \in [Sessions -> Seq(ToSession)]
        /\ \A k \in Sessions : k # conn => inbox'[k] = inbox[k]
        /\ \A k \in Sessions : Typed(inbox'[k])
        /\ \A k \in Sessions : \A any : Has(inbox'[k], any) => Has(inbox[k], any) \/ any = "execute"
        /\ Waited(inbox[conn]) /\ inbox[conn] = <<>> => Waited(inbox'[conn])
    BY <1>2, <2>1
  <2>4. SessionInv'
    <3>1. TypeOK'
      BY <1>1, <2>1, <2>2, <2>3 DEF TypeOK, sessionVars
    <3>2. UNCHANGED <<conn, up, outbox, confirming, pending, current>>
      BY <2>1 DEF sessionVars
    <3> QED
      BY <1>1, <2>1, <2>3, <3>1, <3>2, SessionKept
  <2>5. PatientInv'
    <3>1. ASSUME patient PROVE PatientInv'
      <4>1. prompt = NoCommand /\ inbox[conn] = <<>> /\ outbox = <<>>
        BY <1>3, <3>1 DEF SendCommand, Quiet
      <4>2. \A k \in Sessions : Has(inbox'[k], "accept") => Has(inbox[k], "accept")
        BY <2>3
      <4>3. \A k \in Sessions : Waited(inbox'[k])
        BY <1>1, <2>3, <3>1, <4>1 DEF PatientInv
      <4> QED
        BY <1>1, <2>1, <3>1, <4>1, <4>2, <4>3 DEF PatientInv, sessionVars
    <3> QED
      BY <2>1, <3>1 DEF PatientInv
  <2> QED
    BY <2>4, <2>5 DEF IInv
<1>4. ASSUME NEW kind \in {"accept", "cancel"}, AnswerPrompt(kind)
      PROVE  IInv'
  <2>1. /\ prompt # NoCommand /\ prompt' = NoCommand
        /\ IF up THEN Transmit(kind, NoCommand) ELSE inbox' = inbox
        /\ accepted' = IF kind = "accept" THEN accepted \cup {prompt} ELSE accepted
        /\ UNCHANGED <<patient, conn, up, history, outbox, registered, sessionVars>>
    BY <1>4 DEF AnswerPrompt
  <2>2. /\ inbox' \in [Sessions -> Seq(ToSession)]
        /\ \A k \in Sessions : k # conn => inbox'[k] = inbox[k]
        /\ \A k \in Sessions : Typed(inbox'[k])
        /\ \A k \in Sessions : \A any : Has(inbox'[k], any) =>
              Has(inbox[k], any) \/ (up /\ k = conn /\ any = kind)
        /\ Waited(inbox[conn]) /\ ~(up /\ Has(inbox[conn], "execute")) => Waited(inbox'[conn])
    <3>1. CASE up
      <4>1. Transmit(kind, NoCommand)
        BY <2>1, <3>1
      <4> QED
        BY <1>2, <3>1, <4>1
    <3>2. CASE ~up
      BY <1>1, <2>1, <3>2 DEF SessionInv, TypeOK
    <3> QED
      BY <3>1, <3>2
  <2>3. UNCHANGED <<conn, up, outbox, confirming, pending, current, ran>>
    BY <2>1 DEF sessionVars
  <2>4. SessionInv'
    <3>1. TypeOK'
      BY <1>1, <2>1, <2>2 DEF TypeOK, sessionVars
    <3>2. /\ \A k \in Sessions : k > conn => inbox'[k] = inbox[k] /\ confirming'[k] = confirming[k]
          /\ \A k \in Sessions : Typed(inbox'[k])
          /\ up' \/ outbox' = <<>>
      <4>1. \A k \in Sessions : k > conn => k # conn
        BY <1>1
      <4> QED
        BY <1>1, <2>2, <2>3, <4>1 DEF SessionInv
    <3> QED
      BY <1>1, <2>3, <3>1, <3>2, SessionKept
  <2>5. PatientInv'
    <3> SUFFICES ASSUME patient PROVE PatientInv'
      BY <2>1 DEF PatientInv
    <3>1. /\ ran \cap Unknown \subseteq accepted
          /\ \A k \in Sessions : /\ Waited(inbox[k])
                                 /\ Has(inbox[k], "accept") /\ confirming[k] => pending[k] \in accepted
          /\ up => /\ ~Has(inbox[conn], "execute") /\ (confirming[conn] => prompt = pending[conn])
                   /\ \A i \in 1 .. Len(outbox) : outbox[i].kind = "prompt" => AboutPending(outbox[i].command)
      BY <1>1, <2>1 DEF PatientInv, AboutPending
    <3>2. accepted \subseteq accepted' /\ (kind = "accept" => prompt \in accepted')
      BY <2>1
    <3>3. \A k \in Sessions : Waited(inbox'[k])
      BY <2>2, <3>1
    <3>4. ASSUME NEW k \in Sessions, Has(inbox'[k], "accept"), confirming[k]
          PROVE  pending[k] \in accepted'
      <4>1. CASE Has(inbox[k], "accept")
        BY <3>1, <3>2, <3>4, <4>1
      <4>2. CASE up /\ k = conn /\ kind = "accept"
        BY <3>1, <3>2, <3>4, <4>2
      <4> QED
        BY <2>2, <3>4, <4>1, <4>2
    <3>5. up => ~Has(inbox'[conn], "execute")
      <4>1. Has(inbox'[conn], "execute") => Has(inbox[conn], "execute") \/ kind = "execute"
        BY <1>1, <2>2
      <4> QED
        BY <1>4, <3>1, <4>1
    <3>6. up => \A i \in 1 .. Len(outbox) : outbox[i].kind = "prompt" =>
                    ~Has(inbox'[conn], "execute") /\ (confirming[conn] => outbox[i].command = pending[conn])
      BY <3>1, <3>5 DEF AboutPending
    <3>7. prompt' = NoCommand /\ patient'
      BY <2>1
    <3>8. \A k \in Sessions : Waited(inbox[k])' /\ (Has(inbox[k], "accept")' /\ confirming'[k] => pending'[k] \in accepted')
      BY <2>3, <3>3, <3>4
    <3>9. ran' \cap Unknown \subseteq accepted'
      BY <2>3, <3>1, <3>2
    <3>10. up' => \A i \in 1 .. Len(outbox') : outbox'[i].kind = "prompt" => AboutPending(outbox[i].command)'
      BY <2>3, <3>6 DEF AboutPending
    <3> QED
      BY <3>7, <3>8, <3>9, <3>10 DEF PatientInv
  <2> QED
    BY <2>4, <2>5 DEF IInv
<1>5. ASSUME InterruptCommand
      PROVE  IInv'
  <2>1. up /\ Transmit("interrupt", NoCommand) /\ UNCHANGED <<clientVars, outbox, registered, sessionVars>>
    BY <1>5 DEF InterruptCommand
  <2>2. /\ inbox' \in [Sessions -> Seq(ToSession)]
        /\ \A k \in Sessions : k # conn => inbox'[k] = inbox[k]
        /\ \A k \in Sessions : Typed(inbox'[k])
        /\ \A k \in Sessions : \A any : Has(inbox'[k], any) => Has(inbox[k], any) \/ any = "interrupt"
        /\ Waited(inbox[conn]) => Waited(inbox'[conn])
    BY <1>2, <2>1
  <2>3. UNCHANGED <<patient, conn, up, prompt, accepted, outbox, confirming, pending, current, ran>>
    BY <2>1 DEF clientVars, sessionVars
  <2>4. TypeOK'
    BY <1>1, <2>1, <2>2 DEF TypeOK, clientVars, sessionVars
  <2>5. SessionInv'
    <3>1. /\ \A k \in Sessions : k > conn => inbox'[k] = inbox[k] /\ confirming'[k] = confirming[k]
          /\ \A k \in Sessions : Typed(inbox'[k])
          /\ up' \/ outbox' = <<>>
      <4>1. \A k \in Sessions : k > conn => k # conn
        BY <1>1
      <4> QED
        BY <1>1, <2>2, <2>3, <4>1 DEF SessionInv
    <3> QED
      BY <1>1, <2>3, <2>4, <3>1, SessionKept
  <2>6. PatientInv'
    <3>1. patient => ran' \cap Unknown \subseteq accepted
      BY <1>1, <2>3 DEF PatientInv
    <3>2. \A k \in Sessions : Waited(inbox[k]) => Waited(inbox'[k])
      BY <2>2
    <3>3. \A k \in Sessions, kind \in {"execute", "accept"} : Has(inbox'[k], kind) => Has(inbox[k], kind)
      BY <2>2
    <3> QED
      BY <1>1, <2>3, <3>1, <3>2, <3>3, PatientKept
  <2> QED
    BY <2>5, <2>6 DEF IInv
<1>6. ASSUME Receive
      PROVE  IInv'
  <2> DEFINE m == Head(outbox)
  <2>1. /\ up /\ outbox \in Seq(ToTab) /\ outbox # <<>> /\ outbox' = Tail(outbox)
        /\ UNCHANGED <<patient, conn, up, history, accepted, inbox, registered, sessionVars>>
    BY <1>1, <1>6 DEF Receive, TypeOK
  <2>2. /\ m \in ToTab /\ m = outbox[1] /\ 1 \in 1 .. Len(outbox) /\ outbox' \in Seq(ToTab)
        /\ \A i \in 1 .. Len(outbox') : i + 1 \in 1 .. Len(outbox) /\ outbox[i + 1] = outbox'[i]
    BY <2>1
  <2>3. prompt' = IF m.kind = "prompt" THEN m.command ELSE prompt
    BY <1>6 DEF Receive
  <2>4. UNCHANGED <<patient, conn, up, accepted, inbox, confirming, pending, current, ran>>
    BY <2>1 DEF sessionVars
  <2>5. TypeOK'
    BY <1>1, <2>1, <2>2, <2>3 DEF TypeOK, sessionVars, ToTab
  <2>6. SessionInv'
    <3>1. \A k \in Sessions : Typed(inbox'[k])
      BY <1>1, <2>4 DEF SessionInv
    <3> QED
      BY <1>1, <2>1, <2>4, <2>5, <3>1, SessionKept
  <2>7. PatientInv'
    <3>1. patient => ran' \cap Unknown \subseteq accepted
      BY <1>1, <2>4 DEF PatientInv
    <3>2. /\ \/ prompt' \in {NoCommand, prompt}
             \/ \E i \in 1 .. Len(outbox) : outbox[i].kind = "prompt" /\ prompt' = outbox[i].command
          /\ \A i \in 1 .. Len(outbox') : \E j \in 1 .. Len(outbox) : outbox[j] = outbox'[i]
      BY <2>2, <2>3
    <3> QED
      BY <1>1, <2>1, <2>4, <3>1, <3>2, PatientKept
  <2> QED
    BY <2>6, <2>7 DEF IInv
<1>7. ASSUME Drop
      PROVE  IInv'
  <2>1. PICK n \in 0 .. Len(inbox[conn]) : inbox' = [inbox EXCEPT ![conn] = SubSeq(@, 1, n)]
    BY <1>7 DEF Drop
  <2>2. /\ up' = FALSE /\ outbox' = <<>>
        /\ UNCHANGED <<patient, conn, prompt, history, accepted, registered, sessionVars>>
    BY <1>7 DEF Drop
  <2>3. LET r == SubSeq(inbox[conn], 1, n)
        IN  /\ r \in Seq(ToSession)
            /\ \A kind : Has(r, kind) => Has(inbox[conn], kind)
            /\ Typed(inbox[conn]) => Typed(r)
            /\ Waited(inbox[conn]) => Waited(r)
    BY <1>1, Kept
  <2>4. /\ inbox' \in [Sessions -> Seq(ToSession)] /\ inbox'[conn] = SubSeq(inbox[conn], 1, n)
        /\ \A k \in Sessions : k # conn => inbox'[k] = inbox[k]
    BY <1>1, <2>1, <2>3 DEF TypeOK
  <2>5. /\ \A k \in Sessions : Typed(inbox'[k])
        /\ \A k \in Sessions : Waited(inbox[k]) => Waited(inbox'[k])
        /\ \A k \in Sessions, kind \in {"execute", "accept"} : Has(inbox'[k], kind) => Has(inbox[k], kind)
    BY <1>1, <2>3, <2>4 DEF SessionInv
  <2>6. UNCHANGED <<patient, conn, prompt, accepted, confirming, pending, current, ran>>
    BY <2>2 DEF sessionVars
  <2>7. TypeOK'
    <3>1. inbox' \in [Sessions -> Seq(ToSession)]
      BY <2>4
    <3>2. up' \in BOOLEAN
      BY <2>2
    <3>3. outbox' \in Seq(ToTab)
      BY <2>2
    <3> QED
      BY <1>1, <2>2, <3>1, <3>2, <3>3 DEF TypeOK, sessionVars
  <2>8. SessionInv'
    <3>1. \A k \in Sessions : k > conn => inbox'[k] = inbox[k] /\ confirming'[k] = confirming[k]
      <4>1. \A k \in Sessions : k > conn => k # conn
        BY <1>1
      <4> QED
        BY <2>4, <2>6, <4>1
    <3>2. \A k \in Sessions : Typed(inbox'[k])
      BY <2>5
    <3> QED
      BY <1>1, <2>2, <2>6, <2>7, <3>1, <3>2, SessionKept
  <2>9. PatientInv'
    <3>1. patient => ran' \cap Unknown \subseteq accepted
      BY <1>1, <2>6 DEF PatientInv
    <3> QED
      BY <1>1, <2>2, <2>5, <2>6, <3>1, PatientKept
  <2> QED
    BY <2>8, <2>9 DEF IInv
<1>8. ASSUME Reconnect
      PROVE  IInv'
  <2>1. /\ ~up /\ up' /\ conn' = conn + 1 /\ conn' \in Sessions
        /\ registered' = registered \cup {conn'}
        /\ UNCHANGED <<patient, prompt, history, accepted, inbox, outbox, sessionVars>>
    BY <1>1, <1>8 DEF Reconnect
  <2>2. outbox' = <<>> /\ inbox'[conn'] = <<>> /\ ~confirming'[conn']
    BY <1>1, <2>1 DEF SessionInv, sessionVars
  <2>3. TypeOK'
    BY <1>1, <2>1 DEF TypeOK, sessionVars
  <2>4. SessionInv'
    <3>1. \A k \in Sessions : Typed(inbox[k])'
      BY <1>1, <2>1 DEF SessionInv
    <3>2. \A k \in Sessions : k > conn' => inbox'[k] = <<>> /\ ~confirming'[k]
      BY <1>1, <2>1 DEF SessionInv, sessionVars
    <3>3. \A k \in Sessions : confirming'[k] => pending'[k] \in Unknown /\ current'[k] # pending'[k]
      BY <1>1, <2>1 DEF SessionInv, sessionVars
    <3> QED
      BY <2>1, <2>3, <3>1, <3>2, <3>3 DEF SessionInv
  <2>5. PatientInv'
    <3> SUFFICES ASSUME patient PROVE PatientInv'
      BY <2>1 DEF PatientInv
    <3>1. /\ (ran \cap Unknown \subseteq accepted)'
          /\ \A k \in Sessions : /\ Waited(inbox[k])'
                                 /\ Has(inbox[k], "accept")' /\ confirming'[k] => pending'[k] \in accepted'
      BY <1>1, <2>1 DEF PatientInv, sessionVars
    <3>2. ~Has(inbox'[conn'], "execute")
      BY <2>2 DEF Has
    <3>3. \A c : AboutPending(c)'
      BY <2>2, <3>2 DEF AboutPending
    <3> QED
      BY <2>2, <3>1, <3>3 DEF PatientInv
  <2> QED
    BY <2>4, <2>5 DEF IInv
<1> QED
  BY <1>3, <1>4, <1>5, <1>6, <1>7, <1>8 DEF Tab

-----------------------------------------------------------------------------
(* Steps of a session *)

\* A session takes a message and answers nothing that asks the user.
LEMMA QuietHandle ==
    ASSUME IInv, NEW k \in Sessions, Takes(k), TypeOK',
           UNCHANGED clientVars, up \/ outbox' = <<>>,
           up => \A i \in 1 .. Len(outbox') : outbox'[i].kind = "prompt" =>
                    \E j \in 1 .. Len(outbox) : outbox[j] = outbox'[i],
           patient => ran' \cap Unknown \subseteq accepted,
           \A j \in Sessions : confirming'[j] => confirming[j] /\ pending'[j] = pending[j],
           \A j \in Sessions : j # k => confirming'[j] = confirming[j],
           \A j \in Sessions : current'[j] = current[j] \/ current'[j] \notin Unknown \/ ~confirming'[j]
    PROVE  IInv'
<1>1. SessionInv /\ PatientInv /\ conn \in Sessions
  BY DEF IInv, SessionInv, TypeOK
<1>2. /\ \A j \in Sessions : j # k => inbox'[j] = inbox[j]
      /\ \A j \in Sessions : Typed(inbox'[j]) /\ (Waited(inbox[j]) => Waited(inbox'[j]))
      /\ \A j \in Sessions : \A any : Has(inbox'[j], any) => Has(inbox[j], any)
      /\ k <= conn
  BY <1>1, TakesFacts
<1>3. UNCHANGED <<patient, conn, up, prompt, accepted>>
  BY DEF clientVars
<1>4. SessionInv'
  <2>1. \A j \in Sessions : j > conn => inbox'[j] = inbox[j] /\ confirming'[j] = confirming[j]
    <3>1. \A j \in Sessions : j > conn => j # k
      BY <1>1, <1>2, CommandsAssumption DEF Sessions
    <3> QED
      BY <1>2, <3>1
  <2>2. \A j \in Sessions : Typed(inbox'[j])
    BY <1>2
  <2> QED
    BY <1>1, <1>3, <2>1, <2>2, SessionKept
<1>5. PatientInv'
  <2>1. \A j \in Sessions : Waited(inbox[j]) => Waited(inbox'[j])
    BY <1>2
  <2>2. \A j \in Sessions, any \in {"execute", "accept"} : Has(inbox'[j], any) => Has(inbox[j], any)
    BY <1>2
  <2> QED
    BY <1>1, <1>3, <2>1, <2>2, PatientKept
<1> QED
  BY <1>4, <1>5 DEF IInv

LEMMA HandleStep ==
    ASSUME IInv, NEW k \in Sessions, Handle(k)
    PROVE  IInv'
<1> USE CommandsAssumption
<1>1. TypeOK /\ SessionInv /\ PatientInv
  BY DEF IInv, SessionInv
<1>2. patient => ran \cap Unknown \subseteq accepted
  BY <1>1 DEF PatientInv
<1>3. CASE RefuseCommand(k)
  <2> DEFINE c == Head(inbox[k]).command
             ms == <<Message("error", c), Message("result", c)>>
  <2>1. /\ Reads(k, "execute") /\ Reply(k, ms) /\ c \in Commands /\ answered' = answered \cup {c}
        /\ UNCHANGED <<pc, current, process, ran, pending, confirming, registered, clientVars>>
    BY <1>1, <1>3 DEF RefuseCommand, Idle
  <2>2. ms \in Seq(ToTab) /\ \A j \in 1 .. Len(ms) : ms[j].kind # "prompt"
    BY <2>1 DEF Message, ToTab
  <2> HIDE DEF ms, c
  <2>3. /\ outbox' \in Seq(ToTab) /\ (up \/ outbox' = <<>>)
        /\ up => \A i \in 1 .. Len(outbox') : outbox'[i].kind = "prompt" =>
                    \E j \in 1 .. Len(outbox) : outbox[j] = outbox'[i]
    BY <1>1, <2>1, <2>2, Replied
  <2>4. TypeOK'
    BY <1>1, <2>1, <2>3, ReadsFacts DEF TypeOK, clientVars
  <2> QED
    BY <1>2, <2>1, <2>3, <2>4, QuietHandle DEF Reads
<1>4. CASE RunCommand(k)
  <2> DEFINE c == Head(inbox[k]).command
             ms == <<Message("sent", c)>>
  <2>1. /\ Reads(k, "execute") /\ Reply(k, ms) /\ c \notin Unknown /\ ran' = ran \cup {c}
        /\ pc' = [pc EXCEPT ![k] = "starting"] /\ current' = [current EXCEPT ![k] = c]
        /\ UNCHANGED <<process, pending, confirming, answered, registered, clientVars>>
    BY <1>4 DEF RunCommand, Execute
  <2>2. c \in Commands /\ pc[k] = "reading"
    BY <1>1, <2>1, ReadsFacts
  <2>3. ms \in Seq(ToTab) /\ \A j \in 1 .. Len(ms) : ms[j].kind # "prompt"
    BY <2>2 DEF Message, ToTab
  <2> HIDE DEF ms, c
  <2>4. /\ outbox' \in Seq(ToTab) /\ (up \/ outbox' = <<>>)
        /\ up => \A i \in 1 .. Len(outbox') : outbox'[i].kind = "prompt" =>
                    \E j \in 1 .. Len(outbox) : outbox[j] = outbox'[i]
    <3>1. Reply(k, ms)
      BY <2>1
    <3> QED
      BY <1>1, <2>3, <3>1, Replied
  <2>5. TypeOK'
    BY <1>1, <2>1, <2>2, <2>4, ReadsFacts DEF TypeOK, clientVars
  <2>6. \A j \in Sessions : current'[j] = current[j] \/ current'[j] \notin Unknown
    BY <1>1, <2>1 DEF TypeOK
  <2>7. patient => ran' \cap Unknown \subseteq accepted
    BY <1>2, <2>1
  <2> QED
    BY <2>1, <2>4, <2>5, <2>6, <2>7, QuietHandle DEF Reads
<1>5. CASE RunConfirmed(k)
  <2> DEFINE c == pending[k]
             ms == <<Message("sent", c)>>
  <2>1. /\ Reads(k, "accept") /\ Reply(k, ms) /\ confirming[k] /\ ran' = ran \cup {c}
        /\ confirming' = [confirming EXCEPT ![k] = FALSE]
        /\ pc' = [pc EXCEPT ![k] = "starting"] /\ current' = [current EXCEPT ![k] = c]
        /\ UNCHANGED <<process, pending, answered, registered, clientVars>>
    BY <1>5 DEF RunConfirmed, Execute
  <2>2. c \in Commands /\ pc[k] = "reading" /\ Has(inbox[k], "accept")
    BY <1>1, <2>1, ReadsFacts DEF SessionInv
  <2>3. ms \in Seq(ToTab) /\ \A j \in 1 .. Len(ms) : ms[j].kind # "prompt"
    BY <2>2 DEF Message, ToTab
  <2>4. patient => c \in accepted
    BY <1>1, <2>1, <2>2 DEF PatientInv
  <2> HIDE DEF ms, c
  <2>5. /\ outbox' \in Seq(ToTab) /\ (up \/ outbox' = <<>>)
        /\ up => \A i \in 1 .. Len(outbox') : outbox'[i].kind = "prompt" =>
                    \E j \in 1 .. Len(outbox) : outbox[j] = outbox'[i]
    BY <1>1, <2>1, <2>3, Replied
  <2>6. TypeOK'
    BY <1>1, <2>1, <2>2, <2>5, ReadsFacts DEF TypeOK, clientVars
  <2>7. /\ \A j \in Sessions : confirming'[j] => confirming[j] /\ pending'[j] = pending[j]
        /\ \A j \in Sessions : j # k => confirming'[j] = confirming[j]
        /\ \A j \in Sessions : current'[j] = current[j] \/ ~confirming'[j]
    BY <1>1, <2>1 DEF TypeOK
  <2>8. patient => ran' \cap Unknown \subseteq accepted
    BY <1>2, <2>1, <2>4
  <2> QED
    BY <2>1, <2>5, <2>6, <2>7, <2>8, QuietHandle DEF Reads
<1>6. CASE CancelConfirmed(k)
  <2>1. /\ Reads(k, "cancel") /\ confirming[k]
        /\ confirming' = [confirming EXCEPT ![k] = FALSE]
        /\ pending' = [pending EXCEPT ![k] = NoCommand]
        /\ UNCHANGED <<pc, current, process, ran, answered, registered, clientVars>>
    BY <1>6 DEF CancelConfirmed, Idle
  <2>2. PICK c \in Commands : c = pending[k]
    BY <1>1, <2>1 DEF SessionInv
  <2> DEFINE ms == <<Message("result", c)>>
  <2>3. ms \in Seq(ToTab) /\ \A j \in 1 .. Len(ms) : ms[j].kind # "prompt"
    BY DEF Message, ToTab
  <2>4. Reply(k, ms)
    BY <1>6, <2>2 DEF CancelConfirmed
  <2> HIDE DEF ms
  <2>5. /\ outbox' \in Seq(ToTab) /\ (up \/ outbox' = <<>>)
        /\ up => \A i \in 1 .. Len(outbox') : outbox'[i].kind = "prompt" =>
                    \E j \in 1 .. Len(outbox) : outbox[j] = outbox'[i]
    BY <1>1, <2>3, <2>4, Replied
  <2>6. TypeOK'
    BY <1>1, <2>1, <2>5, ReadsFacts DEF TypeOK, clientVars
  <2>7. /\ \A j \in Sessions : confirming'[j] => confirming[j] /\ pending'[j] = pending[j]
        /\ \A j \in Sessions : j # k => confirming'[j] = confirming[j]
    BY <1>1, <2>1 DEF TypeOK
  <2> QED
    BY <1>2, <2>1, <2>5, <2>6, <2>7, QuietHandle DEF Reads
<1>7. CASE IgnoreAnswer(k) \/ HandleInterrupt(k) \/ IgnoreMessage(k)
  <2>1. Takes(k)
    BY <1>7 DEF IgnoreAnswer, HandleInterrupt, IgnoreMessage, Reads
  <2>2. UNCHANGED <<outbox, pc, current, process, pending, confirming, ran, answered, registered, clientVars>>
    BY <1>7 DEF IgnoreAnswer, HandleInterrupt, IgnoreMessage, Idle, sessionVars
  <2>3. inbox' \in [Sessions -> Seq(ToSession)]
    BY <1>1, <2>1, TakesFacts
  <2>4. TypeOK'
    BY <1>1, <2>2, <2>3 DEF TypeOK, clientVars
  <2>5. up \/ outbox' = <<>>
    BY <1>1, <2>2 DEF SessionInv
  <2> QED
    BY <1>2, <2>1, <2>2, <2>4, <2>5, QuietHandle
<1>8. CASE AskConfirmation(k)
  <2> DEFINE c == Head(inbox[k]).command
             ms == <<Message("prompt", c)>>
  <2>1. /\ Reads(k, "execute") /\ Reply(k, ms) /\ c \in Unknown /\ answered' = answered \cup {c}
        /\ confirming' = [confirming EXCEPT ![k] = TRUE] /\ pending' = [pending EXCEPT ![k] = c]
        /\ UNCHANGED <<pc, current, process, ran, registered, clientVars>>
    BY <1>8 DEF AskConfirmation, Idle
  <2>2. ms \in Seq(ToTab) /\ \A j \in 1 .. Len(ms) : ms[j].command = c
    BY <2>1 DEF Message, ToTab
  <2> HIDE DEF ms, c
  <2>3. /\ inbox' \in [Sessions -> Seq(ToSession)]
        /\ \A j \in Sessions : j # k => inbox'[j] = inbox[j]
        /\ \A j \in Sessions : Typed(inbox'[j]) /\ (Waited(inbox[j]) => Waited(inbox'[j]))
        /\ \A j \in Sessions : \A any : Has(inbox'[j], any) => Has(inbox[j], any)
        /\ k <= conn /\ current[k] = NoCommand
        /\ Has(inbox[k], "execute")
        /\ Waited(inbox[k]) => ~Has(inbox'[k], "execute") /\ ~Has(inbox[k], "accept")
    BY <1>1, <2>1, ReadsFacts
  <2>4. /\ outbox' \in Seq(ToTab) /\ (up \/ outbox' = <<>>)
        /\ up => \A i \in 1 .. Len(outbox') :
                    \/ \E j \in 1 .. Len(outbox) : outbox'[i] = outbox[j]
                    \/ k = conn /\ outbox'[i].command = c
    <3>1. /\ outbox' \in Seq(ToTab) /\ (up \/ outbox' = <<>>)
          /\ up => \A i \in 1 .. Len(outbox') :
                      \/ \E j \in 1 .. Len(outbox) : outbox'[i] = outbox[j]
                      \/ k = conn /\ \E j \in 1 .. Len(ms) : outbox'[i] = ms[j]
      BY <1>1, <2>1, <2>2, Replied
    <3> QED
      BY <2>2, <3>1
  <2>5. /\ confirming'[k] = TRUE /\ pending'[k] = c
        /\ \A j \in Sessions : j # k => confirming'[j] = confirming[j] /\ pending'[j] = pending[j]
    BY <1>1, <2>1 DEF TypeOK
  <2>6. TypeOK'
    <3>1. /\ confirming' \in [Sessions -> BOOLEAN] /\ pending' \in [Sessions -> Commands \cup {NoCommand}]
          /\ answered' \subseteq Commands
          /\ \A j \in Sessions : confirming'[j] => pending'[j] # NoCommand
      BY <1>1, <2>1, <2>5 DEF TypeOK
    <3>2. inbox' \in [Sessions -> Seq(ToSession)] /\ outbox' \in Seq(ToTab)
      BY <2>3, <2>4
    <3> QED
      BY <1>1, <2>1, <3>1, <3>2 DEF TypeOK, clientVars
  <2>7. UNCHANGED <<patient, conn, up, prompt, accepted, current, ran>> /\ conn \in Sessions
    BY <1>1, <2>1 DEF clientVars, TypeOK
  <2>8. SessionInv'
    <3>1. \A j \in Sessions : Typed(inbox[j])'
      BY <2>3
    <3>2. \A j \in Sessions : confirming'[j] => pending'[j] \in Unknown /\ current'[j] # pending'[j]
      <4>1. \A j \in Sessions : confirming[j] => pending[j] \in Unknown /\ current[j] # pending[j]
        BY <1>1 DEF SessionInv
      <4> QED
        BY <2>1, <2>3, <2>5, <2>7, <4>1
    <3>3. \A j \in Sessions : j > conn' => inbox'[j] = <<>> /\ ~confirming'[j]
      <4>1. \A j \in Sessions : j > conn => inbox[j] = <<>> /\ ~confirming[j] /\ j # k
        BY <1>1, <2>3, <2>7 DEF SessionInv, Sessions
      <4> QED
        BY <2>3, <2>5, <2>7, <4>1
    <3> QED
      BY <2>4, <2>6, <2>7, <3>1, <3>2, <3>3 DEF SessionInv
  <2>9. PatientInv'
    <3> SUFFICES ASSUME patient PROVE PatientInv'
      BY <2>7 DEF PatientInv
    <3>1. /\ \A j \in Sessions : /\ Waited(inbox[j])
                                 /\ Has(inbox[j], "accept") /\ confirming[j] => pending[j] \in accepted
          /\ up => /\ prompt # NoCommand => AboutPending(prompt)
                   /\ \A i \in 1 .. Len(outbox) : outbox[i].kind = "prompt" => AboutPending(outbox[i].command)
      BY <1>1 DEF PatientInv
    <3>2. \A j \in Sessions : Waited(inbox[j])'
      BY <2>3, <3>1
    <3>3. \A j \in Sessions : Has(inbox'[j], "accept") /\ confirming'[j] => pending'[j] \in accepted'
      <4>1. ~Has(inbox'[k], "accept")
        BY <2>3, <3>1
      <4> QED
        BY <2>3, <2>5, <2>7, <3>1, <4>1
    <3>4. CASE k = conn
      <4>1. up => prompt = NoCommand /\ \A i \in 1 .. Len(outbox) : outbox[i].kind # "prompt"
        BY <2>3, <3>1, <3>4 DEF AboutPending
      <4>2. up => \A i \in 1 .. Len(outbox') : outbox'[i].kind = "prompt" => outbox'[i].command = c
        BY <2>4, <4>1
      <4>3. ~Has(inbox'[conn'], "execute") /\ pending'[conn'] = c
        BY <2>3, <2>5, <2>7, <3>1, <3>4
      <4>4. up => \A i \in 1 .. Len(outbox') : outbox'[i].kind = "prompt" => AboutPending(outbox[i].command)'
        BY <4>2, <4>3 DEF AboutPending
      <4> QED
        BY <1>2, <2>7, <3>2, <3>3, <4>1, <4>4 DEF PatientInv
    <3>5. CASE k # conn
      <4>1. \A x : AboutPending(x) <=> ~Has(inbox'[conn'], "execute") /\ (confirming'[conn'] => x = pending'[conn'])
        BY <2>3, <2>5, <2>7, <3>5 DEF AboutPending
      <4>2. up => \A i \in 1 .. Len(outbox') : \E j \in 1 .. Len(outbox) : outbox'[i] = outbox[j]
        BY <2>4, <3>5
      <4>3. up => /\ prompt # NoCommand => AboutPending(prompt)'
                  /\ \A i \in 1 .. Len(outbox') : outbox'[i].kind = "prompt" => AboutPending(outbox[i].command)'
        BY <2>7, <3>1, <4>1, <4>2 DEF AboutPending
      <4> QED
        BY <1>2, <2>7, <3>2, <3>3, <4>3 DEF PatientInv
    <3> QED
      BY <3>4, <3>5
  <2> QED
    BY <2>8, <2>9 DEF IInv
<1> QED
  BY <1>3, <1>4, <1>5, <1>6, <1>7, <1>8 DEF Handle

\* A command starts, ends, fails to start or runs out of time.
LEMMA CommandStep ==
    ASSUME IInv, NEW k \in Sessions, StartChild(k) \/ Complete(k) \/ FailToStart(k) \/ TimeOut(k)
    PROVE  IInv'
<1> USE CommandsAssumption
<1>1. TypeOK /\ SessionInv /\ PatientInv /\ conn \in Sessions
  BY DEF IInv, SessionInv, TypeOK
<1>2. UNCHANGED <<inbox, confirming, ran, registered, clientVars>>
  BY DEF StartChild, Complete, FailToStart, TimeOut, Finish
<1>3. /\ TypeOK' /\ (up \/ outbox' = <<>>)
      /\ up => \A i \in 1 .. Len(outbox') : outbox'[i].kind = "prompt" =>
                  \E j \in 1 .. Len(outbox) : outbox[j] = outbox'[i]
      /\ \A j \in Sessions : confirming[j] => pending'[j] = pending[j]
      /\ \A j \in Sessions : current'[j] = current[j] \/ current'[j] \notin Unknown
  <2>1. CASE StartChild(k)
    <3>1. /\ pc[k] = "starting" /\ pc' = [pc EXCEPT ![k] = "running"]
          /\ process' = [process EXCEPT ![k] = current[k]]
          /\ UNCHANGED <<current, pending, confirming, ran, answered, inbox, outbox, registered, clientVars>>
      BY <2>1 DEF StartChild
    <3>2. TypeOK'
      BY <1>1, <3>1 DEF TypeOK, clientVars
    <3> QED
      BY <1>1, <3>1, <3>2 DEF SessionInv
  <2>2. CASE ~StartChild(k)
    <3> DEFINE ms == <<Message("result", current[k])>>
    <3>1. pc[k] # "reading" /\ Finish(k) /\ (Reply(k, ms) \/ outbox' = outbox)
      BY <2>2 DEF Complete, FailToStart, TimeOut
    <3>2. current[k] \in Commands
      BY <1>1, <3>1 DEF TypeOK
    <3>3. ms \in Seq(ToTab) /\ \A j \in 1 .. Len(ms) : ms[j].kind # "prompt"
      BY <3>2 DEF Message, ToTab
    <3> HIDE DEF ms
    <3>4. /\ outbox' \in Seq(ToTab) /\ (up \/ outbox' = <<>>)
          /\ up => \A i \in 1 .. Len(outbox') : outbox'[i].kind = "prompt" =>
                      \E j \in 1 .. Len(outbox) : outbox[j] = outbox'[i]
      <4>1. CASE Reply(k, ms)
        BY <1>1, <3>3, <4>1, Replied
      <4>2. CASE outbox' = outbox
        BY <1>1, <4>2 DEF SessionInv, TypeOK
      <4> QED
        BY <3>1, <4>1, <4>2
    <3>5. /\ pc' = [pc EXCEPT ![k] = "reading"] /\ process' = [process EXCEPT ![k] = NoCommand]
          /\ current' = [current EXCEPT ![k] = NoCommand]
          /\ pending' = IF pending[k] = current[k] THEN [pending EXCEPT ![k] = NoCommand] ELSE pending
          /\ answered' = answered \cup {current[k]}
      BY <3>1 DEF Finish
    <3>6. \A j \in Sessions : confirming[j] => pending'[j] = pending[j] /\ pending[j] # NoCommand
      BY <1>1, <3>5 DEF SessionInv, TypeOK
    <3>7. TypeOK'
      BY <1>1, <1>2, <3>2, <3>4, <3>5, <3>6 DEF TypeOK, clientVars
    <3>8. \A j \in Sessions : current'[j] = current[j] \/ current'[j] \notin Unknown
      BY <1>1, <3>5 DEF TypeOK
    <3> QED
      BY <3>4, <3>6, <3>7, <3>8
  <2> QED
    BY <2>1, <2>2
<1>4. UNCHANGED <<patient, conn, up, prompt, accepted>>
  BY <1>2 DEF clientVars
<1>5. SessionInv'
  <2>1. \A j \in Sessions : Typed(inbox'[j])
    BY <1>1, <1>2 DEF SessionInv
  <2> QED
    BY <1>1, <1>2, <1>3, <1>4, <2>1, SessionKept
<1>6. PatientInv'
  <2>1. patient => ran' \cap Unknown \subseteq accepted
    BY <1>1, <1>2 DEF PatientInv
  <2> QED
    BY <1>1, <1>2, <1>3, <1>4, <2>1, PatientKept
<1> QED
  BY <1>5, <1>6 DEF IInv

\* A session leaves the registry.
LEMMA UnregisterStep ==
    ASSUME IInv, NEW k \in Sessions, Unregister(k)
    PROVE  IInv'
<1>1. /\ registered' = registered \ {k}
      /\ UNCHANGED <<clientVars, inbox, outbox, sessionVars>>
  BY DEF Unregister
<1>2. SessionInv'
  BY <1>1 DEF clientVars, sessionVars, IInv, SessionInv, TypeOK
<1>3. PatientInv'
  BY <1>1 DEF clientVars, sessionVars, IInv, PatientInv, AboutPending
<1> QED
  BY <1>2, <1>3 DEF IInv

-----------------------------------------------------------------------------
LEMMA InvInit == Init => IInv
<1> SUFFICES ASSUME Init PROVE IInv
  OBVIOUS
<1>1. SessionInv
  BY CommandsAssumption DEF Init, SessionInv, TypeOK, Typed, Sessions
<1>2. PatientInv
  BY DEF Init, PatientInv, Waited, Has
<1> QED
  BY <1>1, <1>2 DEF IInv

LEMMA InvNext == IInv /\ [Next]_vars => IInv'
<1> SUFFICES ASSUME IInv, [Next]_vars PROVE IInv'
  OBVIOUS
<1>1. CASE UNCHANGED vars
  <2>1. SessionInv'
    BY <1>1 DEF vars, clientVars, sessionVars, IInv, SessionInv, TypeOK
  <2>2. PatientInv'
    BY <1>1 DEF vars, clientVars, sessionVars, IInv, PatientInv, AboutPending
  <2> QED
    BY <2>1, <2>2 DEF IInv
<1> QED
  BY <1>1, TabStep, HandleStep, CommandStep, UnregisterStep DEF Next

\* The ranges of all variables, for any commands, any number of connections and any
\* number of messages on their way; a child runs only while its session waits for it.
THEOREM TypeCorrect == Spec => []TypeOK
<1>1. IInv => TypeOK
  BY DEF IInv, SessionInv
<1> QED
  BY <1>1, InvInit, InvNext, PTL DEF Spec

\* An unknown command of a user who waits for answers runs only after its own prompt
\* was accepted, over any number of connections that fail in between.
THEOREM ConfirmedOnlyHolds == Spec => []ConfirmedOnly
<1>1. IInv => ConfirmedOnly
  BY DEF IInv, PatientInv, ConfirmedOnly
<1> QED
  BY <1>1, InvInit, InvNext, PTL DEF Spec
=============================================================================
