------------------------ MODULE CompatibilityProofs ------------------------
(***************************************************************************)
(* Proofs about Compatibility for any words, versions and queue bound: the *)
(* XOR heuristic never misreads a client that types UTF-8, except an XOR   *)
(* client before its first telling word, and the login extras follow the   *)
(* announced version.                                                      *)
(***************************************************************************)
EXTENDS Compatibility, TLAPS

\* A text of the server's own, before before_send has seen it.
Fresh(texts) == \A t \in texts : t = AsTyped(t.word)

\* The flag tells exactly what the client does, as far as it has been told.
ModeIsKnown == legible => (enabled <=> Xors /\ told)

FramesFresh ==
  /\ \A i \in 1..Len(outbox) : Fresh(outbox[i].texts)
  /\ shown # <<>> => Fresh(shown[1].frame.texts)

\* The client has not been told more when a frame left than it is now.
ShownEarlier == shown # <<>> /\ shown[1].told => told

VersionIsAnnounced == login_version = announced

Inv ==
  /\ CompatTypeOK
  /\ ModeIsKnown
  /\ FramesFresh
  /\ ShownEarlier
  /\ VersionIsAnnounced
  /\ PlainClientUndisturbed
  /\ XorClientUnderstood
  /\ ExtrasFollowVersion

\* Decoding what the client sent gives what it typed, if the mode is right.
LEMMA DecodeInverts ==
  ASSUME CompatTypeOK, NEW words \in SUBSET Words
  PROVE  LET raw == {ClientForm(w) : w \in words}
             typed == {AsTyped(w) : w \in words}
         IN  /\ ~Xors => raw = typed
             /\ Xors => xor_params(raw) = typed
             /\ raw \in SUBSET Text
             /\ xor_params(raw) \in SUBSET Text
<1> DEFINE raw == {ClientForm(w) : w \in words}
           typed == {AsTyped(w) : w \in words}
<1>1. \A w \in words : /\ ~Xors => ClientForm(w) = AsTyped(w)
                       /\ Xors => xor_bytes(ClientForm(w)) = AsTyped(w)
                       /\ ClientForm(w) \in Text
                       /\ xor_bytes(ClientForm(w)) \in Text
  BY DEF CompatTypeOK, ClientForm, AsTyped, xor_bytes, Text, Forms, Xors
<1>2. xor_params(raw) = {xor_bytes(ClientForm(w)) : w \in words}
  BY DEF xor_params
<1> HIDE DEF raw
<1>3. ~Xors => raw = typed
  BY <1>1 DEF raw
<1>4. Xors => xor_params(raw) = typed
  BY <1>1, <1>2
<1>5. raw \in SUBSET Text /\ xor_params(raw) \in SUBSET Text
  BY <1>1, <1>2 DEF raw
<1> QED
  BY <1>3, <1>4, <1>5 DEF raw

\* detect_xor on a client that types UTF-8: it fires for an XOR client with a
\* telling word, and for nobody else.
LEMMA DetectionExact ==
  ASSUME CompatTypeOK, NEW words \in SUBSET Words, words \subseteq Plain
  PROVE  detect_xor({ClientForm(w) : w \in words})
           <=> Xors /\ ~(words \subseteq Flip)
<1>1. CASE ~Xors
  BY <1>1 DEF CompatTypeOK, detect_xor, ClientForm, Utf8, xor_bytes, Forms, Xors
<1>2. CASE Xors
  <2>1. \A w \in words : /\ ~Utf8(ClientForm(w)) <=> w \notin Flip
                         /\ Utf8(xor_bytes(ClientForm(w)))
    BY <1>2 DEF CompatTypeOK, ClientForm, Utf8, xor_bytes, Forms, Xors
  <2> QED
    BY <1>2, <2>1 DEF detect_xor
<1> QED
  BY <1>1, <1>2

\* The versions that are recorded are numbers.
LEMMA U16Natural == U16 \subseteq Nat
  BY DEF U16

\* The value that stands for no version is below every version.
LEMMA UnknownNegative ==
  ASSUME NEW v \in LoginVersions
  PROVE  v = UNKNOWN_LOGIN_VERSION <=> ~(v >= 0)
<1>1. CASE v = UNKNOWN_LOGIN_VERSION
  BY <1>1 DEF UNKNOWN_LOGIN_VERSION
<1>2. CASE v \in U16
  BY <1>2, U16Natural DEF UNKNOWN_LOGIN_VERSION
<1> QED
  BY <1>1, <1>2 DEF LoginVersions

\* parse_login_version gives a 16-bit version or none.
LEMMA VersionsReadable ==
  ASSUME NEW field \in VersionFields
  PROVE  parse_login_version(field) \in LoginVersions
  BY DEF parse_login_version, LoginVersions

\* A reply is well typed if its parts are.
LEMMA FrameTyped ==
  ASSUME CompatTypeOK, NEW ty \in Types, NEW ok \in BOOLEAN,
         NEW texts \in SUBSET Text, NEW extras \in BOOLEAN
  PROVE  Frame(ty, ok, texts, extras) \in Frames
  BY DEF Frame, Frames, CompatTypeOK

\* The request hooks of a request of any type, whatever becomes of it: the
\* flag is exact again, and the version recorded is the one announced.
LEMMA HooksExact ==
  ASSUME Inv, NEW ty \in Types, NEW words \in SUBSET Words,
         NEW field \in VersionFields, client' = client,
         Note(ty, words, field),
         on_request(ty, {ClientForm(w) : w \in words}, field)
  PROVE  /\ ModeIsKnown'
         /\ VersionIsAnnounced'
         /\ enabled' \in BOOLEAN /\ legible' \in BOOLEAN /\ told' \in BOOLEAN
         /\ login_version' \in LoginVersions /\ announced' \in LoginVersions
         /\ legible' => legible
         /\ told => told'
<1> DEFINE raw == {ClientForm(w) : w \in words}
<1>1. /\ enabled' \in BOOLEAN /\ legible' \in BOOLEAN /\ told' \in BOOLEAN
      /\ legible' => legible /\ words \subseteq Plain
      /\ told => told'
  BY DEF Inv, CompatTypeOK, Note, on_request
<1>2. ModeIsKnown'
  <2> SUFFICES ASSUME legible' PROVE enabled' <=> Xors /\ told'
    BY DEF ModeIsKnown, Xors
  <2>1. enabled <=> Xors /\ told
    BY <1>1 DEF Inv, ModeIsKnown
  <2>2. detect_xor(raw) <=> Xors /\ ~(words \subseteq Flip)
    BY <1>1, DetectionExact DEF Inv
  <2> HIDE DEF raw
  <2>3. enabled' <=> enabled \/ (ty # "opaque" /\ detect_xor(raw))
    BY DEF on_request, raw
  <2>4. told' <=> told \/ (ty # "opaque" /\ Xors /\ ~(words \subseteq Flip))
    BY DEF Note
  <2> QED
    BY <2>1, <2>2, <2>3, <2>4
<1>3. /\ login_version' = announced'
      /\ login_version' \in LoginVersions
  <2>1. parse_login_version(field) \in LoginVersions
    BY VersionsReadable
  <2>2. parse_login_version(field) = UNKNOWN_LOGIN_VERSION
          <=> ~(parse_login_version(field) >= 0)
    BY <2>1, UnknownNegative
  <2> QED
    BY <2>1, <2>2
       DEF Inv, CompatTypeOK, VersionIsAnnounced, Note, on_request,
           record_login_version
<1> QED
  BY <1>1, <1>2, <1>3 DEF VersionIsAnnounced

----------------------------------------------------------------------------
\* A new connection satisfies the invariant.
LEMMA InitInv == CompatInit => Inv
<1> SUFFICES ASSUME CompatInit PROVE Inv
  OBVIOUS
<1>1. CompatTypeOK
  <2>1. /\ route \in Routes
        /\ login_version \in LoginVersions /\ announced \in LoginVersions
    BY DEF CompatInit, Routes, LoginVersions
  <2>2. outbox \in Seq(Frames)
    BY DEF CompatInit
  <2> QED
    BY <2>1, <2>2 DEF CompatInit, CompatTypeOK
<1> QED
  BY <1>1
     DEF CompatInit, Inv, ModeIsKnown, FramesFresh, ShownEarlier,
         VersionIsAnnounced, PlainClientUndisturbed, XorClientUnderstood,
         ExtrasFollowVersion, CommandAsTyped, ShownAsWritten, Idle

\* What a frame must be for the outbox to take it.
Sound(frame) ==
  /\ frame \in Frames
  /\ Fresh(frame.texts)
  /\ frame.extras <=> /\ frame.ty = "login"
                      /\ frame.ok
                      /\ client.sub # SYNHX_SUB_VERSION
                      /\ frame.announced >= HOTLINE_85_MIN_VERSION

\* The error replies of the reply builder are sound.
LEMMA ErrorFrameSound ==
  ASSUME CompatTypeOK, NEW ty \in Types
  PROVE  Sound(ErrorFrame(ty))
<1>1. ErrorFrame(ty) \in Frames
  BY FrameTyped DEF ErrorFrame
<1> QED
  BY <1>1 DEF Sound, ErrorFrame, Frame, Fresh

\* Appending a sound frame keeps what is said of the outbox.
LEMMA AppendSound ==
  ASSUME CompatTypeOK, FramesFresh, ExtrasFollowVersion, NEW frame,
         Sound(frame), outbox' = Append(outbox, frame), client' = client,
         shown' = shown
  PROVE  outbox' \in Seq(Frames) /\ FramesFresh' /\ ExtrasFollowVersion'
<1>1. outbox \in Seq(Frames) /\ frame \in Frames
  BY DEF CompatTypeOK, Sound
<1>2. outbox' \in Seq(Frames) /\ Len(outbox') = Len(outbox) + 1
  BY <1>1
<1>3. \A i \in 1..Len(outbox') : outbox'[i] = frame
                                 \/ (i \in 1..Len(outbox) /\ outbox'[i] = outbox[i])
  BY <1>1, <1>2
<1>4. FramesFresh'
  BY <1>2, <1>3 DEF FramesFresh, Sound, Fresh, AsTyped
<1>5. ExtrasFollowVersion'
  BY <1>2, <1>3 DEF ExtrasFollowVersion, Sound
<1> QED
  BY <1>2, <1>4, <1>5

\* A refused frame runs no hook; its error reply is sound.
LEMMA RefuseFrameInv ==
  ASSUME Inv, NEW ty \in Types, RefuseFrame(ty) PROVE Inv'
<1>1. /\ UNCHANGED <<client, enabled, login_version, route, shown, legible,
                     told, announced>>
      /\ outbox' = Append(outbox, ErrorFrame(ty))
  BY DEF RefuseFrame
<1>2. Sound(ErrorFrame(ty))
  BY ErrorFrameSound DEF Inv
<1>3. outbox' \in Seq(Frames) /\ FramesFresh' /\ ExtrasFollowVersion'
  BY <1>1, <1>2, AppendSound DEF Inv
<1> QED
  BY <1>1, <1>3
     DEF Inv, CompatTypeOK, ModeIsKnown, ShownEarlier, VersionIsAnnounced,
         PlainClientUndisturbed, XorClientUnderstood, CommandAsTyped,
         ShownAsWritten, ClientForm, Xors

\* The hooks leave the frame the client saw last as readable as it was.
LEMMA ShownKept ==
  ASSUME Inv, client' = client, shown' = shown, told => told',
         legible' => legible, ModeIsKnown', CommandAsTyped' \/ ~legible'
           \/ (Xors /\ ~told')
  PROVE  ShownEarlier' /\ PlainClientUndisturbed' /\ XorClientUnderstood'
<1>1. ShownEarlier'
  BY DEF Inv, ShownEarlier
<1>2. PlainClientUndisturbed'
  <2> SUFFICES ASSUME ~Xors, legible'
               PROVE  ~enabled' /\ CommandAsTyped' /\ ShownAsWritten'
    BY DEF PlainClientUndisturbed, Xors
  <2>1. ShownAsWritten
    BY DEF Inv, PlainClientUndisturbed
  <2>2. ShownAsWritten'
    BY <2>1 DEF ShownAsWritten, ClientForm
  <2>3. ~enabled'
    BY DEF ModeIsKnown, Xors
  <2> QED
    BY <2>2, <2>3
<1>3. XorClientUnderstood'
  <2> SUFFICES ASSUME Xors, legible', told'
               PROVE  /\ enabled'
                      /\ CommandAsTyped'
                      /\ (shown # <<>> /\ shown[1].told) => ShownAsWritten'
    BY DEF XorClientUnderstood, Xors
  <2>1. (shown # <<>> /\ shown[1].told) => ShownAsWritten
    BY DEF Inv, ShownEarlier, XorClientUnderstood
  <2>2. ShownAsWritten => ShownAsWritten'
    BY DEF ShownAsWritten, ClientForm
  <2>3. enabled'
    BY DEF ModeIsKnown, Xors
  <2> QED
    BY <2>1, <2>2, <2>3
<1> QED
  BY <1>1, <1>2, <1>3

\* A dispatched command: decoded with the flag as the hooks have left it.
LEMMA DispatchInv ==
  ASSUME Inv, NEW ty \in Types, NEW words \in SUBSET Words,
         NEW field \in VersionFields, Dispatch(ty, words, field)
  PROVE  Inv'
<1> DEFINE raw == {ClientForm(w) : w \in words}
           typed == {AsTyped(w) : w \in words}
<1>1. /\ Note(ty, words, field)
      /\ on_request(ty, raw, field)
      /\ route' = [busy |-> TRUE, ty |-> ty, words |-> words,
                   texts |-> request_payload(ty, raw)]
      /\ UNCHANGED <<client, outbox, shown>>
  BY DEF Dispatch
<1>2. /\ ModeIsKnown' /\ VersionIsAnnounced'
      /\ enabled' \in BOOLEAN /\ legible' \in BOOLEAN /\ told' \in BOOLEAN
      /\ login_version' \in LoginVersions /\ announced' \in LoginVersions
      /\ legible' => legible
      /\ told => told'
  BY <1>1, HooksExact
<1>3. /\ ~Xors => raw = typed
      /\ Xors => xor_params(raw) = typed
      /\ raw \in SUBSET Text /\ xor_params(raw) \in SUBSET Text
  BY DecodeInverts DEF Inv
<1> HIDE DEF raw, typed
<1>4. request_payload(ty, raw) =
        IF enabled' /\ ty # "opaque" THEN xor_params(raw) ELSE raw
  BY <1>1 DEF request_payload, decode_payload, should_xor, on_request, Inv,
              CompatTypeOK
<1>5. CompatTypeOK'
  <2>1. request_payload(ty, raw) \in SUBSET Text
    BY <1>3, <1>4
  <2>2. route' \in Routes
    BY <1>1, <2>1 DEF Routes
  <2> QED
    BY <1>1, <1>2, <2>2 DEF Inv, CompatTypeOK
<1>6. CommandAsTyped' \/ ~legible' \/ (Xors /\ ~told')
  <2> SUFFICES ASSUME legible', ty # "opaque", ~Xors \/ told'
               PROVE  request_payload(ty, raw) = typed
    BY <1>1 DEF CommandAsTyped, typed
  <2>1. enabled' <=> Xors /\ told'
    BY <1>1, <1>2 DEF ModeIsKnown, Xors
  <2> QED
    BY <1>3, <1>4, <2>1
<1>7. ShownEarlier' /\ PlainClientUndisturbed' /\ XorClientUnderstood'
  BY <1>1, <1>2, <1>6, ShownKept
<1>8. FramesFresh' /\ ExtrasFollowVersion'
  BY <1>1 DEF Inv, FramesFresh, ExtrasFollowVersion, Fresh, AsTyped
<1> QED
  BY <1>2, <1>5, <1>7, <1>8 DEF Inv

\* A refused command: the hooks have run, and only an error reply follows.
LEMMA RefuseCommandInv ==
  ASSUME Inv, NEW ty \in Types, NEW words \in SUBSET Words,
         NEW field \in VersionFields, RefuseCommand(ty, words, field)
  PROVE  Inv'
<1>1. /\ Note(ty, words, field)
      /\ on_request(ty, {ClientForm(w) : w \in words}, field)
      /\ outbox' = Append(outbox, ErrorFrame(ty))
      /\ UNCHANGED <<client, route, shown>>
      /\ ~route.busy
  BY DEF RefuseCommand, Ready
<1>2. /\ ModeIsKnown' /\ VersionIsAnnounced'
      /\ enabled' \in BOOLEAN /\ legible' \in BOOLEAN /\ told' \in BOOLEAN
      /\ login_version' \in LoginVersions /\ announced' \in LoginVersions
      /\ legible' => legible
      /\ told => told'
  BY <1>1, HooksExact
<1>3. Sound(ErrorFrame(ty))
  BY ErrorFrameSound DEF Inv
<1>4. outbox' \in Seq(Frames) /\ FramesFresh' /\ ExtrasFollowVersion'
  BY <1>1, <1>3, AppendSound DEF Inv
<1>5. CommandAsTyped'
  BY <1>1 DEF CommandAsTyped
<1>6. ShownEarlier' /\ PlainClientUndisturbed' /\ XorClientUnderstood'
  BY <1>1, <1>2, <1>5, ShownKept
<1>7. CompatTypeOK'
  BY <1>1, <1>2, <1>4 DEF Inv, CompatTypeOK
<1> QED
  BY <1>2, <1>4, <1>6, <1>7 DEF Inv

\* The end of a command, with a sound frame as its reply.
LEMMA AnswerInv ==
  ASSUME Inv, NEW frame, Sound(frame), outbox' = Append(outbox, frame),
         route' = Idle,
         UNCHANGED <<client, enabled, login_version, shown, legible, told,
                     announced>>
  PROVE  Inv'
<1>1. outbox' \in Seq(Frames) /\ FramesFresh' /\ ExtrasFollowVersion'
  BY AppendSound DEF Inv
<1>2. CommandAsTyped'
  BY DEF CommandAsTyped, Idle
<1>3. ModeIsKnown'
  BY DEF Inv, ModeIsKnown, Xors
<1>4. ShownEarlier' /\ PlainClientUndisturbed' /\ XorClientUnderstood'
  BY <1>2, <1>3, ShownKept
<1>5. CompatTypeOK'
  BY <1>1 DEF Inv, CompatTypeOK, Routes
<1> QED
  BY <1>1, <1>3, <1>4, <1>5 DEF Inv, VersionIsAnnounced

\* The router works only on requests of a known kind.
LEMMA BusyTyped ==
  ASSUME route \in Routes, route.busy
  PROVE  route.ty \in Types
<1>1. Idle.busy = FALSE
  BY DEF Idle
<1>2. route # Idle
  BY <1>1
<1> QED
  BY <1>2 DEF Routes

\* A reply of the domain, decorated by augment_login_reply.
LEMMA ReplyInv ==
  ASSUME Inv, NEW ok \in BOOLEAN, NEW words \in SUBSET ServerWords,
         Reply(ok, words)
  PROVE  Inv'
<1> DEFINE extras == login_extras(route.ty, ok)
           all == IF extras THEN words \cup {DEFAULT_SERVER_NAME} ELSE words
           texts == {AsTyped(w) : w \in all}
           frame == Frame(route.ty, ok, texts, extras)
<1>1. /\ outbox' = Append(outbox, frame)
      /\ route' = Idle
      /\ UNCHANGED <<client, enabled, login_version, shown, legible, told,
                     announced>>
  BY DEF Reply, augment
<1>2. route.ty \in Types
  BY BusyTyped DEF Reply, Inv, CompatTypeOK
<1>3. extras \in BOOLEAN
  BY DEF login_extras, is_successful_login_reply, should_include_login_extras
<1>4. texts \in SUBSET Text /\ Fresh(texts)
  <2>1. all \subseteq Words
    BY WordsAssumption, ServerWordsAssumption
  <2> QED
    BY <2>1 DEF Text, Forms, AsTyped, Fresh
<1>5. frame \in Frames
  BY <1>2, <1>3, <1>4, FrameTyped DEF Inv
<1>6. extras <=> /\ route.ty = "login"
                 /\ ok
                 /\ client.sub # SYNHX_SUB_VERSION
                 /\ announced >= HOTLINE_85_MIN_VERSION
  <2>1. announced \in Int /\ login_version = announced
    BY U16Natural
       DEF Inv, CompatTypeOK, VersionIsAnnounced, LoginVersions,
           UNKNOWN_LOGIN_VERSION
  <2> QED
    BY <2>1 DEF login_extras, is_successful_login_reply, should_include_login_extras, kind,
                HOTLINE_85_MIN_VERSION, HOTLINE_19_MIN_VERSION
<1>7. Sound(frame)
  BY <1>4, <1>5, <1>6 DEF Sound, Frame
<1> QED
  BY <1>1, <1>7, AnswerInv

\* A command that fails or leaves no reply.
LEMMA ProcessErrorInv == Inv /\ ProcessError => Inv'
<1> SUFFICES ASSUME Inv, ProcessError PROVE Inv'
  OBVIOUS
<1>1. route.ty \in Types
  BY BusyTyped DEF ProcessError, Inv, CompatTypeOK
<1>2. Sound(ErrorFrame(route.ty))
  BY <1>1, ErrorFrameSound DEF Inv
<1> QED
  BY <1>2, AnswerInv DEF ProcessError

\* The writer: the flag is exact, so what leaves is in the client's form
\* unless the client XORs and has not been told of yet.
LEMMA BeforeSendInv == Inv /\ BeforeSend => Inv'
<1> SUFFICES ASSUME Inv, BeforeSend PROVE Inv'
  OBVIOUS
<1> DEFINE frame == Head(outbox)
<1>1. /\ outbox # <<>> /\ outbox' = Tail(outbox)
      /\ shown' = <<[frame |-> frame, seen |-> encode_payload(frame.texts),
                     told |-> told]>>
      /\ UNCHANGED <<client, enabled, login_version, route, legible, told,
                     announced>>
  BY DEF BeforeSend
<1>2. outbox \in Seq(Frames)
  BY DEF Inv, CompatTypeOK
<1>3. /\ outbox' \in Seq(Frames)
      /\ frame \in Frames /\ frame = outbox[1] /\ 1 \in 1..Len(outbox)
      /\ \A i \in 1..Len(outbox') :
           i + 1 \in 1..Len(outbox) /\ outbox'[i] = outbox[i + 1]
  BY <1>1, <1>2
<1>4. Fresh(frame.texts) /\ frame.texts \in SUBSET Text
  BY <1>3 DEF Inv, FramesFresh, Frames
<1> HIDE DEF frame
<1>5. /\ shown' # <<>> /\ shown'[1].frame = frame /\ shown'[1].told = told
      /\ shown'[1].seen = encode_payload(frame.texts)
  BY <1>1
<1>6. encode_payload(frame.texts) \in SUBSET Text
  BY <1>4 DEF encode_payload, xor_params, xor_bytes, Text, Forms
<1>7. CompatTypeOK'
  BY <1>1, <1>3, <1>6 DEF Inv, CompatTypeOK
<1>8. FramesFresh' /\ ExtrasFollowVersion'
  BY <1>1, <1>3, <1>4, <1>5
     DEF Inv, FramesFresh, ExtrasFollowVersion, Fresh, AsTyped
<1>9. ModeIsKnown' /\ ShownEarlier' /\ VersionIsAnnounced'
  BY <1>1, <1>5 DEF Inv, ModeIsKnown, ShownEarlier, VersionIsAnnounced, Xors
<1>10. (enabled <=> Xors) => ShownAsWritten'
  <2> SUFFICES ASSUME enabled <=> Xors
               PROVE  encode_payload(frame.texts) =
                        {ClientForm(t.word) : t \in frame.texts}
    BY <1>1, <1>5 DEF ShownAsWritten, ClientForm
  <2>1. \A t \in frame.texts : /\ ~Xors => t = ClientForm(t.word)
                               /\ Xors => xor_bytes(t) = ClientForm(t.word)
    BY <1>4 DEF Fresh, AsTyped, ClientForm, xor_bytes, Xors, Inv,
                CompatTypeOK, Forms
  <2> QED
    BY <2>1 DEF encode_payload, xor_params
<1>11. CommandAsTyped => CommandAsTyped'
  BY <1>1 DEF CommandAsTyped
<1>12. PlainClientUndisturbed'
  BY <1>1, <1>10, <1>11 DEF Inv, PlainClientUndisturbed, Xors
<1>13. XorClientUnderstood'
  BY <1>1, <1>5, <1>10, <1>11 DEF Inv, XorClientUnderstood, Xors
<1> QED
  BY <1>7, <1>8, <1>9, <1>12, <1>13 DEF Inv

----------------------------------------------------------------------------

\* Every step of the connection keeps the invariant.
LEMMA StepInv == Inv /\ [CompatNext]_vars => Inv'
<1> SUFFICES ASSUME Inv, [CompatNext]_vars PROVE Inv'
  OBVIOUS
<1>1. CASE UNCHANGED vars
  BY <1>1
     DEF vars, Inv, CompatTypeOK, ModeIsKnown, FramesFresh, Fresh, AsTyped,
         ShownEarlier, VersionIsAnnounced, PlainClientUndisturbed,
         XorClientUnderstood, ExtrasFollowVersion, CommandAsTyped,
         ShownAsWritten, ClientForm, Xors
<1>2. CASE \E ty \in Types : RefuseFrame(ty)
  BY <1>2, RefuseFrameInv
<1>3. CASE \E ty \in Types, words \in SUBSET Words, field \in VersionFields :
             Dispatch(ty, words, field)
  BY <1>3, DispatchInv
<1>4. CASE \E ty \in Types, words \in SUBSET Words, field \in VersionFields :
             RefuseCommand(ty, words, field)
  BY <1>4, RefuseCommandInv
<1>5. CASE \E ok \in BOOLEAN, words \in SUBSET ServerWords : Reply(ok, words)
  BY <1>5, ReplyInv
<1>6. CASE ProcessError
  BY <1>6, ProcessErrorInv
<1>7. CASE BeforeSend
  BY <1>7, BeforeSendInv
<1> QED
  BY <1>1, <1>2, <1>3, <1>4, <1>5, <1>6, <1>7 DEF CompatNext

\* The invariant, of which the theorems are conjuncts, always holds.
LEMMA InvHolds == CompatSpec => []Inv
  BY InitInv, StepInv, PTL DEF CompatSpec

\* The compatibility state is well typed, whatever clients send: no version
\* field, of whatever width, is recorded as more than 16 bits.
THEOREM CompatTypeCorrect == CompatSpec => []CompatTypeOK
<1>1. Inv => CompatTypeOK
  BY DEF Inv
<1> QED
  BY <1>1, InvHolds, PTL

\* A plain client that types UTF-8 is never disturbed by the XOR heuristic of
\* decode_payload and before_send.
THEOREM PlainClientsSafe == CompatSpec => []PlainClientUndisturbed
<1>1. Inv => PlainClientUndisturbed
  BY DEF Inv
<1> QED
  BY <1>1, InvHolds, PTL

\* An XOR client that types UTF-8 is understood, and answered in its form,
\* from its first telling word on.
THEOREM XorClientsServed == CompatSpec => []XorClientUnderstood
<1>1. Inv => XorClientUnderstood
  BY DEF Inv
<1> QED
  BY <1>1, InvHolds, PTL

\* augment_login_reply decorates exactly the successful login replies of
\* clients whose last readable version asks for it.
THEOREM ExtrasCorrect == CompatSpec => []ExtrasFollowVersion
<1>1. Inv => ExtrasFollowVersion
  BY DEF Inv
<1> QED
  BY <1>1, InvHolds, PTL
============================================================================
