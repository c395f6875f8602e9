--------------------------- MODULE Compatibility ---------------------------
(***************************************************************************)
(* The compatibility pipeline of one wireframe connection: WireframeRouter *)
(* hands each frame to the request hooks (XOR text decoding, recording of  *)
(* the login version), dispatches the command and runs the reply hook      *)
(* (login extras), and HotlineProtocol::before_send encodes every outgoing *)
(* frame with the XOR flag as it is at the moment of sending.              *)
(*                                                                         *)
(* XorCompatibility and ClientCompatibility are shared by the router and   *)
(* by before_send, which runs in the connection's writer while the router  *)
(* may already be working on a later request.                              *)
(*                                                                         *)
(* A payload is the set of its text fields and its Version field.  A text  *)
(* is a word, plain or with its bytes complemented; all that the code      *)
(* ever asks of it is whether the bytes are valid UTF-8, so a word is known*)
(* by which of its two forms are.  (An empty text is valid in both and its *)
(* own complement: it decides nothing and is left out.)                    *)
(***************************************************************************)
EXTENDS Integers, Sequences

CONSTANTS
  Words,         \* the words clients type
  Plain,         \* those that are valid UTF-8 as typed
  Flip,          \* those that are valid UTF-8 with every byte complemented
  ServerWords,   \* the words of the text fields of replies
  DEFAULT_SERVER_NAME, \* the server name of the login extras, one of them
  SubVersions,   \* the handshake sub-versions of clients
  VersionFields, \* the Version fields of login requests: [bytes, value]
  MaxOutbox      \* bound: frames waiting in the connection's writer

ASSUME WordsAssumption == Plain \subseteq Words /\ Flip \subseteq Words

\* Texts of the server are Rust strings.
ASSUME ServerWordsAssumption ==
  ServerWords \subseteq Plain /\ DEFAULT_SERVER_NAME \in ServerWords

ASSUME VersionAssumption ==
  /\ SubVersions \subseteq Nat
  /\ VersionFields \subseteq [bytes : Nat, value : Nat]

ASSUME MaxOutboxAssumption == MaxOutbox \in Nat

VARIABLES
  client,        \* the other side: the form of its texts, its sub-version
  enabled,       \* XorCompatibility.enabled
  login_version, \* ClientCompatibility.login_version
  route,         \* the command the router is processing, or Idle
  outbox,        \* reply frames waiting in the connection's writer
  shown,         \* the last frame the client received
  legible,       \* history: all the client typed so far is valid UTF-8
  told,          \* history: some decoded request gave an XOR client away
  announced      \* history: the last readable version of a login request

vars == <<client, enabled, login_version, route, outbox, shown, legible,
          told, announced>>

Forms == {"plain", "xored"}

Text == [word : Words, form : Forms]

\* The text is the word as its author typed it.
AsTyped(w) == [word |-> w, form |-> "plain"]

\* The form in which the client sends and expects a text.
ClientForm(w) == [word |-> w, form |-> client.form]

Xors == client.form = "xored"

----------------------------------------------------------------------------
\* XorCompatibility

Utf8(t) == t.word \in (IF t.form = "plain" THEN Plain ELSE Flip)

xor_bytes(t) ==
  [t EXCEPT !.form = IF t.form = "plain" THEN "xored" ELSE "plain"]

xor_params(texts) == {xor_bytes(t) : t \in texts}

MutDetectAny(texts) ==
  \E t \in texts : Utf8(xor_bytes(t))

detect_xor(texts) ==
  /\ \E t \in texts : ~Utf8(t)
  /\ \A t \in texts : Utf8(xor_bytes(t))

\* decode_payload also enables the flag; should_xor is both what is done to
\* this payload and the flag's next value.  A payload without text fields
\* leaves the flag alone, and one that is already enabled is not examined.
should_xor(texts) == enabled \/ detect_xor(texts)

MutDecodeLate(texts) == IF enabled THEN xor_params(texts) ELSE texts

decode_payload(texts) == IF should_xor(texts) THEN xor_params(texts) ELSE texts

\* before_send: the flag is read when the frame leaves, not when it is built.
encode_payload(texts) == IF enabled THEN xor_params(texts) ELSE texts

----------------------------------------------------------------------------
\* ClientCompatibility

\* u32::MAX in the code, which no 16-bit version reaches.
UNKNOWN_LOGIN_VERSION == -1

U16 == 0..(2^16 - 1)

SYNHX_SUB_VERSION == 2
HOTLINE_85_MIN_VERSION == 151
HOTLINE_19_MIN_VERSION == 190

\* Two bytes, or four that hold a 16-bit value; anything else is no version.
parse_login_version(field) ==
  IF field.bytes \in {2, 4} /\ field.value \in U16
  THEN field.value
  ELSE UNKNOWN_LOGIN_VERSION

\* record_login_payload: an unreadable or missing version keeps the old one.
record_login_version(field) ==
  IF parse_login_version(field) = UNKNOWN_LOGIN_VERSION
  THEN login_version
  ELSE parse_login_version(field)

kind(version) ==
  IF client.sub = SYNHX_SUB_VERSION THEN "SynHx"
  ELSE IF version >= HOTLINE_19_MIN_VERSION THEN "Hotline19"
  ELSE IF version >= HOTLINE_85_MIN_VERSION THEN "Hotline85"
  ELSE "Unknown"

is_successful_login_reply(ty, ok) == ty = "login" /\ ok

should_include_login_extras == kind(login_version) \in {"Hotline85", "Hotline19"}

MutExtrasAlways(ty, ok) == ty = "login" /\ should_include_login_extras

\* augment_login_reply: a successful login reply to a client that knows the
\* banner fields; BannerId and ServerName are not in the domain's own reply.
login_extras(ty, ok) == is_successful_login_reply(ty, ok) /\ should_include_login_extras

\* LoginReplyAugmenter: the texts of the reply; a failure would only be logged.
augment(ty, ok, words) ==
  IF login_extras(ty, ok) THEN words \cup {DEFAULT_SERVER_NAME} ELSE words

----------------------------------------------------------------------------
\* WireframeRouter

Idle == [busy |-> FALSE]

\* "opaque" is the kind whose payload bypasses decoding: its bytes are never
\* read as parameters, by the hooks or by the command.
Types == {"login", "text", "opaque"}

Frame(ty, ok, texts, extras) ==
  [ty |-> ty, ok |-> ok, texts |-> texts, extras |-> extras,
   announced |-> announced]

\* Every error reply of the reply builder: code 3 and an empty payload.
ErrorFrame(ty) == Frame(ty, FALSE, {}, FALSE)

CompatInit ==
  /\ client \in [form : Forms, sub : SubVersions]
  /\ enabled = FALSE
  /\ login_version = UNKNOWN_LOGIN_VERSION
  /\ route = Idle
  /\ outbox = <<>>
  /\ shown = <<>>
  /\ legible = TRUE
  /\ told = FALSE
  /\ announced = UNKNOWN_LOGIN_VERSION

Ready == ~route.busy /\ Len(outbox) < MaxOutbox

\* parse_transaction refuses the frame, or decode_payload its parameters:
\* answered under the type its header gives, and nothing is recorded.
RefuseFrame(ty) ==
  /\ Ready
  /\ UNCHANGED <<client, enabled, login_version, route, shown, legible, told,
                 announced>>
  /\ outbox' = Append(outbox, ErrorFrame(ty))

\* What the history variables learn from a request.
Note(ty, words, field) ==
  /\ legible' = (legible /\ words \subseteq Plain)
  /\ told' = (told \/ (ty # "opaque" /\ Xors /\ ~(words \subseteq Flip)))
  /\ announced' = IF ty = "login" /\ parse_login_version(field) >= 0
                  THEN parse_login_version(field) ELSE announced

\* decode_payload_for_request: the payload of the kinds that bypass decoding
\* reaches the command as it came.
request_payload(ty, texts) ==
  IF ty = "opaque" THEN texts ELSE decode_payload(texts)

\* on_request: the flag, then the login version.  Both survive a request
\* that goes on to fail, authentication included.
on_request(ty, texts, field) ==
  /\ enabled' = (enabled \/ (ty # "opaque" /\ detect_xor(texts)))
  /\ login_version' = IF ty = "login" THEN record_login_version(field)
                      ELSE login_version

\* parse_command on the decoded parameters: a text that is read must be UTF-8.
\* A login reads its texts; of the other types some read none.
MayParse(ty, texts) == ty = "login" => \A t \in texts : Utf8(t)

\* prepare_command when from_transaction accepts the decoded parameters.
Dispatch(ty, words, field) ==
  LET raw == {ClientForm(w) : w \in words} IN
  /\ Ready
  /\ Note(ty, words, field)
  /\ on_request(ty, raw, field)
  /\ MayParse(ty, request_payload(ty, raw))
  /\ route' = [busy |-> TRUE, ty |-> ty, words |-> words,
               texts |-> request_payload(ty, raw)]
  /\ UNCHANGED <<client, outbox, shown>>

\* prepare_command when from_transaction fails (a missing parameter, or a
\* text that is not UTF-8): the hooks have already run.
RefuseCommand(ty, words, field) ==
  /\ Ready
  /\ ty # "opaque"
  /\ Note(ty, words, field)
  /\ on_request(ty, {ClientForm(w) : w \in words}, field)
  /\ outbox' = Append(outbox, ErrorFrame(ty))
  /\ UNCHANGED <<client, route, shown>>

\* process_command and finalize_reply with a reply of the domain: an error
\* reply is empty, any other carries the server's texts.  The domain's login
\* reply has none; the extras add ServerName, a text field like the others.
Reply(ok, words) ==
  /\ route.busy
  /\ ~ok \/ route.ty = "login" => words = {}
  /\ outbox' = Append(outbox, Frame(route.ty, ok,
                                    {AsTyped(w) : w \in augment(route.ty, ok, words)},
                                    login_extras(route.ty, ok)))
  /\ route' = Idle
  /\ UNCHANGED <<client, enabled, login_version, shown, legible, told,
                 announced>>

\* process_command fails, or ends without a reply in the buffer.
ProcessError ==
  /\ route.busy
  /\ outbox' = Append(outbox, ErrorFrame(route.ty))
  /\ route' = Idle
  /\ UNCHANGED <<client, enabled, login_version, shown, legible, told,
                 announced>>

\* The writer takes the next frame, and before_send encodes it.
BeforeSend ==
  /\ outbox # <<>>
  /\ shown' = <<[frame |-> Head(outbox),
                 seen |-> encode_payload(Head(outbox).texts), told |-> told]>>
  /\ outbox' = Tail(outbox)
  /\ UNCHANGED <<client, enabled, login_version, route, legible, told,
                 announced>>

CompatNext ==
  \/ \E ty \in Types : RefuseFrame(ty)
  \/ \E ty \in Types, words \in SUBSET Words, field \in VersionFields :
       \/ Dispatch(ty, words, field)
       \/ RefuseCommand(ty, words, field)
  \/ \E ok \in BOOLEAN, words \in SUBSET ServerWords : Reply(ok, words)
  \/ ProcessError
  \/ BeforeSend

CompatSpec == CompatInit /\ [][CompatNext]_vars

----------------------------------------------------------------------------
\* Properties

LoginVersions == U16 \cup {UNKNOWN_LOGIN_VERSION}

Frames == [ty : Types, ok : BOOLEAN, texts : SUBSET Text, extras : BOOLEAN,
           announced : LoginVersions]

Routes == {Idle} \cup [busy : {TRUE}, ty : Types, words : SUBSET Words,
                       texts : SUBSET Text]

\* Type invariant of the connection's compatibility state: what is recorded
\* as a login version fits the protocol's 16 bits.
CompatTypeOK ==
  /\ client \in [form : Forms, sub : SubVersions]
  /\ enabled \in BOOLEAN
  /\ login_version \in LoginVersions
  /\ route \in Routes
  /\ outbox \in Seq(Frames)
  /\ shown = <<>> \/ shown \in
       [{1} -> [frame : Frames, seen : SUBSET Text, told : BOOLEAN]]
  /\ legible \in BOOLEAN
  /\ told \in BOOLEAN
  /\ announced \in LoginVersions

\* The command being processed has the texts its author typed.
CommandAsTyped ==
  route.busy => \/ route.ty = "opaque"
                \/ route.texts = {AsTyped(w) : w \in route.words}

\* The client, reading texts the way it writes them, sees the server's texts.
ShownAsWritten ==
  shown # <<>> =>
    shown[1].seen = {ClientForm(t.word) : t \in shown[1].frame.texts}

\* A client that does not XOR and types UTF-8 is never taken for one that
\* does, however its requests are split into transactions and whichever of
\* its words would also be UTF-8 complemented: decode_payload leaves every
\* command as typed and before_send every reply as written.
PlainClientUndisturbed ==
  ~Xors /\ legible => ~enabled /\ CommandAsTyped /\ ShownAsWritten

\* A client that XORs its texts is understood from the first decoded request
\* with a word that is not UTF-8 complemented, that request included, even if
\* it was refused: every later command is as typed, and every frame sent
\* since, also one built before the detection, is in the client's form.
XorClientUnderstood ==
  Xors /\ legible /\ told =>
    /\ enabled
    /\ CommandAsTyped
    /\ (shown # <<>> /\ shown[1].told) => ShownAsWritten

\* The login extras go out with exactly the successful login replies of
\* clients that are not SynHX and whose last readable version, counting the
\* failed logins and the logins since that named none, is 1.8.5 or later.
ExtrasFollowVersion ==
  \A i \in 1..Len(outbox) :
    outbox[i].extras <=>
      /\ outbox[i].ty = "login"
      /\ outbox[i].ok
      /\ client.sub # SYNHX_SUB_VERSION
      /\ outbox[i].announced >= HOTLINE_85_MIN_VERSION
============================================================================
