----------------------------- MODULE FormCaptcha -----------------------------
(***************************************************************************)
(* The three doors at which a POST brings a provider's token: a form of    *)
(* the site itself (formcaptcha.c), whose body is read, judged and played  *)
(* back to the application; <prefix>/captcha-verify (captcha.c) and        *)
(* <prefix>/embedded-verify (non_interactive.c), which answer with a       *)
(* cookie.  All read the body bucket by bucket, take the token out of it,  *)
(* ask the provider and judge the answer, which arrives chunk by chunk.    *)
(*                                                                         *)
(* A body is a sequence of pieces: a field with a token, a line end, a NUL *)
(* byte, something that breaks JSON, other bytes.  A piece has one unit of *)
(* length.  What the per-address window and the in-flight permits refuse   *)
(* is CaptchaLimits; here they refuse or not.  One POST at a time: two     *)
(* share nothing else.                                                     *)
(***************************************************************************)
EXTENDS Integers, SequencesExt

CONSTANTS
    Scopes,     \* what the scope of the POST configures
    FormBodies, \* sequences of pieces
    ProviderAnswers, \* what a provider may answer
    LongTokens, \* tokens over BS_MAX_CAPTCHA_TOKEN
    Pendings,   \* pending cookies a client may present
    NowSecond,  \* the second the POST arrives in
    MaxBody,    \* bound of the body a door reads, in pieces
    MaxAnswer,  \* BS_MAX_CAPTCHA_BODY, in chunks
    NoToken

ASSUME FormAssumption ==
    /\ MaxBody \in Nat /\ MaxAnswer \in Nat /\ NowSecond \in Nat
    /\ \A body \in FormBodies : body \in Seq(ToSet(body))

VARIABLES
    post,   \* the POST: door, scope, type, body, pending cookie, named provider
    stage,  \* where its handler is
    taken,  \* pieces read from the connection
    asked,  \* the call: token, block, answer, chunks taken, result
    outcome,\* status, whether a cookie was minted, whether framing was redone
    app     \* what the application has read back: pieces, and end of stream

formVars == <<post, stage, taken, asked, outcome, app>>

Token(t) == [what |-> "token", token |-> t]
Piece(w) == [what |-> w, token |-> NoToken]
-----------------------------------------------------------------------------
(* What the doors make of a body. *)

\* A body is a C string to the parsers: it ends at the first NUL byte.
UpToNul(body) ==
    LET nul == SelectInSeq(body, LAMBDA p : p.what = "nul") IN
    IF nul = 0 THEN body ELSE SubSeq(body, 1, nul - 1)

\* bs_form_get takes the first field of the name, json-c keeps the last.
TokenOf(type, text) ==
    LET fields == SelectSeq(text, LAMBDA p : p.what = "token") IN
    CASE fields = <<>>   -> NoToken
      [] fields # <<>> /\ type = "form" -> fields[1].token
      [] OTHER -> Last(fields).token

Malformed(type, text) ==
    type = "json" /\ (text = <<>> \/ \E i \in DOMAIN text : text[i].what = "broken")

\* bs_captcha_pick: the block of the provider the URL names, else the scope's.
Picked(scope, name) ==
    LET i == SelectInSeq(scope.blocks, LAMBDA b : b.name = name) IN
    scope.blocks[IF i = 0 THEN 1 ELSE i]
BlockOf(p) == IF p.door = "endpoint" THEN Picked(p.scope, p.named) ELSE Head(p.scope.blocks)

\* bs_verify_pending_cookie: whole, of a key of the scope, not expired.
PendingGood(scope, pending) ==
    pending.whole /\ pending.exp >= NowSecond /\ pending.key \in scope.keys
-----------------------------------------------------------------------------
(* The answer of a provider. *)

Answered(call) == call.chunks = call.answer.length

\* bs_captcha_parse_response, and bs_geetest_siteverify, which takes neither
\* host, action nor score from it.
SaidOf(kind, answer) ==
    CASE answer.says \in {"yes", "no"} -> answer.says
      [] OTHER -> "error"
Unsigned(answer) == [answer EXCEPT !.host = "", !.action = "", !.score = -1]
Details(kind, answer) == IF kind = "geetest" THEN Unsigned(answer) ELSE answer

\* The judgement of a token the provider said yes to.  An empty expectation
\* expects nothing, and an answer that lacks the detail passes.
Fits(got, expected) == got = "" \/ expected = "" \/ got = expected
ScoreTooLow(block, answer) ==
    block.kind = "v3" /\ answer.score >= 0 /\ answer.score < block.minScore
HostOf(p, block) == IF block.host = "unset" THEN p.scope.server ELSE block.host
ActionOf(p, block) ==
    IF block.action # "unset" THEN block.action ELSE IF p.door = "form" THEN "" ELSE "botshield"

Accepts(p, block, answer) ==
    /\ Fits(answer.host, HostOf(p, block))
    /\ Fits(answer.action, ActionOf(p, block))
    /\ ~ScoreTooLow(block, answer)
-----------------------------------------------------------------------------
Unasked == [token |-> NoToken, block |-> "none", answer |-> "none", chunks |-> 0, result |-> "none"]
Undecided == [status |-> 0, cookie |-> FALSE, closes |-> FALSE, framed |-> FALSE, clears |-> FALSE]
NamesOf(door, scope) ==
    CASE door = "form" -> {"-"}
      [] door = "embedded" -> {scope.blocks[i].name : i \in DOMAIN scope.blocks} \cup {"nobody"}
      [] OTHER -> {scope.blocks[i].name : i \in DOMAIN scope.blocks} \cup {"-", "nobody"}

FormInit ==
    /\ \E door \in {"form", "endpoint", "embedded"}, scope \in Scopes, type \in {"form", "json", "other"},
         body \in FormBodies, pending \in Pendings :
         \E named \in NamesOf(door, scope) :
            post = [door |-> door, scope |-> scope, type |-> IF door = "embedded" THEN "json" ELSE type,
                    body |-> body, pending |-> pending, named |-> named]
    /\ stage = "arrived" /\ taken = <<>> /\ asked = Unasked
    /\ outcome = Undecided /\ app = [pieces |-> <<>>, eos |-> FALSE]

Ends(status) == stage' = "over" /\ outcome' = [outcome EXCEPT !.status = status]
GoesTo(s) == stage' = s /\ UNCHANGED outcome

\* The handlers up to the body: where the POST goes next, or its status.  The
\* endpoint wants a challenge of ours to have been shown before it reads.
Ready(block) == block.kind # "none" /\ block.secret
AtTheGate(p) ==
    LET ready == Ready(BlockOf(p)) IN
    CASE p.door = "embedded" -> 0
      [] p.door = "form" /\ ~ready -> 503
      [] p.door = "form" /\ ready /\ p.type = "other" -> 415
      [] p.door = "endpoint" /\ p.type # "form" -> 415
      [] p.door = "endpoint" /\ p.type = "form" /\ ~ready -> 503
      [] p.door = "endpoint" /\ p.type = "form" /\ ready /\ ~PendingGood(p.scope, p.pending) -> 403
      [] OTHER -> 0

Gate ==
    /\ stage = "arrived"
    /\ IF post.door = "form" /\ ~post.scope.formCaptcha THEN GoesTo("replay")
       ELSE IF AtTheGate(post) = 0 THEN GoesTo("reading")
       ELSE Ends(AtTheGate(post))
    /\ UNCHANGED <<post, taken, asked, app>>

\* bs_form_captcha_read_body and bs_read_form_body: one bucket of one or two
\* pieces.  One that does not fit closes the connection after the answer.
ReadBucket ==
    LET left == Len(post.body) - Len(taken) IN
    /\ stage = "reading"
    /\ \/ \E n \in 1 .. 2 :
            /\ n <= left
            /\ IF n > MaxBody - Len(taken)
               THEN /\ stage' = "over"
                    /\ outcome' = [outcome EXCEPT !.status = 413, !.closes = TRUE]
                    /\ UNCHANGED taken
               ELSE /\ taken' = SubSeq(post.body, 1, Len(taken) + n)
                    /\ UNCHANGED <<stage, outcome>>
       \/ left = 0 /\ GoesTo("inspect") /\ UNCHANGED taken
       \/ Ends(400) /\ UNCHANGED taken
    /\ UNCHANGED <<post, asked, app>>

Replays == stage' = "replay" /\ outcome' = [outcome EXCEPT !.framed = TRUE]

\* A NUL byte would hide the rest of the body from the parsers.
HasNulNot(body) == FALSE      \* mutant: nobody looks
HasNul(body) == \E i \in DOMAIN body : body[i].what = "nul"

\* Only the form looks for NUL bytes and knows the observe mode, and only it
\* asks about a token of any length; a body that names another provider than
\* the scope's gets nowhere at the embedded door.
Inspect ==
    LET door  == post.door
        text  == UpToNul(taken)
        token == TokenOf(post.type, text)
        found == IF token \in LongTokens /\ door # "form" THEN NoToken ELSE token
    IN
    /\ stage = "inspect"
    /\ CASE door = "form" /\ HasNul(taken) -> Ends(400) /\ UNCHANGED asked
         [] door = "form" /\ ~HasNul(taken) /\ post.scope.observe -> Replays /\ UNCHANGED asked
         [] door # "endpoint" /\ ~(door = "form" /\ (HasNul(taken) \/ post.scope.observe))
               /\ Malformed(post.type, text) -> Ends(400) /\ UNCHANGED asked
         [] OTHER ->
              IF door = "embedded" /\ ~Ready(BlockOf(post)) THEN Ends(503) /\ UNCHANGED asked
              ELSE IF door = "embedded" /\ BlockOf(post).name # post.named
                THEN Ends(400) /\ UNCHANGED asked
              ELSE IF found = NoToken
                THEN Ends(IF door = "form" THEN 403 ELSE 400) /\ UNCHANGED asked
              ELSE GoesTo("call") /\ asked' = [Unasked EXCEPT !.token = found, !.block = BlockOf(post)]
    /\ UNCHANGED <<post, taken, app>>
-----------------------------------------------------------------------------
(* The call: bs_captcha_siteverify_guarded, bs_captcha_siteverify,          *)
(* bs_geetest_siteverify and bs_captcha_https_post.                         *)

Result(r) == asked' = [asked EXCEPT !.result = r] /\ stage' = "judge"

\* The guards of CaptchaLimits refuse the call.
Refused ==
    /\ stage = "call"
    /\ \E r \in {"limited", "saturated"} : Result(r)
    /\ UNCHANGED <<post, taken, outcome, app>>

\* The provider's name resolves to an address inside: no socket, no secret sent.
NoSocket ==
    /\ stage = "call" /\ Result("error")
    /\ UNCHANGED <<post, taken, outcome, app>>

\* A GeeTest token is no object with its four fields, or the provider starts
\* to answer.
Ask ==
    /\ stage = "call"
    /\ \/ asked.block.kind = "geetest" /\ Result("no")
       \/ \E answer \in ProviderAnswers :
            /\ asked' = [asked EXCEPT !.answer = answer]
            /\ stage' = "answering"
    /\ UNCHANGED <<post, taken, outcome, app>>

\* bs_curl_write_cb: a chunk over the buffer ends the transfer, which is an
\* error whatever the buffer holds.
Receive ==
    /\ stage = "answering" /\ ~Answered(asked)
    /\ IF asked.chunks < MaxAnswer
       THEN asked' = [asked EXCEPT !.chunks = @ + 1] /\ UNCHANGED stage
       ELSE Result("error")
    /\ UNCHANGED <<post, taken, outcome, app>>

Breaks ==
    /\ stage = "answering"
    /\ Result("timeout") \/ Result("error")
    /\ UNCHANGED <<post, taken, outcome, app>>

\* The transfer is over; only the body of a 2xx answer is parsed.
AnswerEnds ==
    /\ stage = "answering" /\ Answered(asked)
    /\ IF ~asked.answer.ok THEN Result("error")
       ELSE Result(SaidOf(asked.block.kind, asked.answer))
    /\ UNCHANGED <<post, taken, outcome, app>>

\* What becomes of the POST.  The endpoint gives the client the benefit of a
\* provider that cannot be heard, the form and the embedded door do not.
Granted(door, result) == result = "yes" \/ (door = "endpoint" /\ result \in {"timeout", "error"})

\* bs_captcha_carry_and_mint may fail, then no cookie and no way in.
Mints ==
    \/ Ends(500)
    \/ /\ outcome' = [outcome EXCEPT !.cookie = TRUE, !.framed = post.door = "form",
                          !.clears = post.door = "endpoint",
                          !.status = CASE post.door = "form" -> 0
                                       [] post.door = "endpoint" -> 303
                                       [] OTHER -> 204]
       /\ stage' = IF post.door = "form" THEN "replay" ELSE "over"

JudgeAnswer ==
    LET r == asked.result
        fits == r = "yes" => Accepts(post, asked.block, Details(asked.block.kind, asked.answer))
    IN
    /\ stage = "judge"
    /\ CASE r = "limited"   -> Ends(429)
         [] r = "saturated" -> Ends(503)
         [] r \notin {"limited", "saturated"} /\ Granted(post.door, r) /\ fits -> Mints
         [] OTHER -> Ends(403)
    /\ UNCHANGED <<post, taken, asked, app>>
-----------------------------------------------------------------------------
(* bs_form_replay_filter: the application reads the body back. *)

Remaining == SubSeq(taken, Len(app.pieces) + 1, Len(taken))

\* How many pieces one read takes: at most so many bytes, up to a line end,
\* or everything.
Emitted(mode) ==
    LET line == SelectInSeq(Remaining, LAMBDA p : p.what = "newline") IN
    IF mode = "one" THEN 1
    ELSE IF mode = "line" /\ line # 0 THEN line
    ELSE Len(Remaining)

ReadBack ==
    /\ stage = "replay" /\ outcome.framed /\ ~app.eos
    /\ \E mode \in {"one", "line", "all"} :
         app' = IF Remaining = <<>> THEN [app EXCEPT !.eos = TRUE]
                ELSE [pieces |-> app.pieces \o SubSeq(Remaining, 1, Emitted(mode)),
                      eos |-> Emitted(mode) = Len(Remaining)]
    /\ UNCHANGED <<post, stage, taken, asked, outcome>>

FormNext ==
    \/ Gate \/ ReadBucket \/ Inspect
    \/ Refused \/ NoSocket \/ Ask \/ Receive \/ Breaks \/ AnswerEnds \/ JudgeAnswer
    \/ ReadBack

FormSpec == FormInit /\ [][FormNext]_formVars
-----------------------------------------------------------------------------
(* Properties. *)

\* What the application is given is what was judged: pieces in their order,
\* the end after the last of them, and the token it holds when it is read
\* whole, not as a C string, is the one the provider was asked about.
PlayedBack ==
    /\ IsPrefix(app.pieces, post.body)
    /\ app.eos => app.pieces = post.body
    /\ app.eos /\ asked.token # NoToken => TokenOf(post.type, app.pieces) = asked.token

\* A cookie of the captcha tier, and the application behind a form, are
\* reached only with a token that the provider the block names said yes to,
\* for this host, this action and with this score, or that no provider could
\* be heard about, at the endpoint from a client with a challenge of ours; none
\* opens when the provider was heard to say no (bs_form_captcha_fixup,
\* bs_captcha_verify_handler, bs_embedded_verify_provider).  What is unheard
\* may open every door here, as captcha.h and docs/captcha.md have it,
\* although the code then closes two of them.
VouchedFor ==
    /\ PlayedBack
    /\ LET said == asked.result = "yes" /\ Answered(asked) /\ asked.answer.ok
                      /\ asked.answer.says = "yes"
                      /\ Accepts(post, BlockOf(post),
                                 Details(asked.block.kind, asked.answer))
           unheard == asked.result \in {"timeout", "error"}
       IN
       /\ outcome.cookie => \/ said
                            \/ unheard /\ (post.door = "endpoint" => PendingGood(post.scope, post.pending))
       /\ stage = "replay" => said \/ unheard \/ post.scope.observe \/ ~post.scope.formCaptcha
       /\ outcome.cookie => asked.block = BlockOf(post) /\ asked.token # NoToken
=============================================================================
