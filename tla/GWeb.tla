------------------------------- MODULE GWeb --------------------------------
(***************************************************************************)
(* The HTTP client of connman (gweb/gweb.c), one request session at a     *)
(* time: the session's name resolution, its send watch, and the receive   *)
(* watch that parses the response (status line, header lines, the blank   *)
(* line, then a plain or a chunked body) and hands each piece of body to  *)
(* the caller's result function.                                          *)
(*                                                                         *)
(* A session is a record; each handler of gweb.c is an operator that maps *)
(* a session to [s |-> the session after it, calls |-> the statuses the   *)
(* result function was called with, err |-> the handler's error return]. *)
(* A component that uses the client (6to4.c) composes these operators     *)
(* with its own result function.                                          *)
(*                                                                         *)
(* The response is a sequence of bytes over a small alphabet: "CR", "LF",  *)
(* hex digits, body bytes, and one symbol for the text of each header     *)
(* line (the status line "S<code>", "TE" for Transfer-Encoding: chunked, *)
(* "H" for any other header).  Splitting inside a line's text only        *)
(* concatenates, so a line's text is one symbol; CR and LF, which the     *)
(* parser looks at one by one, are symbols of their own.                  *)
(***************************************************************************)
EXTENDS Integers, Sequences, SequencesExt

HexDigits == <<"0", "1", "2", "3", "4", "5", "6", "7",
               "8", "9", "a", "b", "c", "d", "e", "f">>
IsHex(c) == \E i \in 1..16 : HexDigits[i] = c
HexVal(c) == CHOOSE i \in 0..15 : HexDigits[i + 1] = c

\* the text of a status line "HTTP/1.1 <code> ..." and the code sscanf
\* reads from it
StatusTok(code) == "S" \o ToString(code)
IsStatusLine(line) == line # <<>> /\ \E c \in {200, 404, 500} : line[1] = StatusTok(c)
StatusOf(line) == CHOOSE c \in {200, 404, 500} : line[1] = StatusTok(c)

\* strtoul(str, NULL, 16): the value of the leading hex digits, 0 if none
RECURSIVE HexPrefix(_, _)
HexPrefix(str, acc) ==
    IF str = <<>> \/ ~IsHex(Head(str)) THEN acc
    ELSE HexPrefix(Tail(str), 16 * acc + HexVal(Head(str)))
strtoul(str) == HexPrefix(str, 0)

\* g_string_append_printf(buf, "%zx", length): the server's side of the
\* chunk framing, as process_next_chunk writes it
RECURSIVE ToHex(_)
ToHex(n) == IF n < 16 THEN <<HexDigits[n + 1]>>
            ELSE ToHex(n \div 16) \o <<HexDigits[(n % 16) + 1]>>

-----------------------------------------------------------------------------
(* The responses a server sends: a status line, optionally                 *)
(* Transfer-Encoding: chunked, the blank line, then the body: its bytes,   *)
(* or each chunk framed as HEX-LEN CR LF data CR LF and the last chunk    *)
(* 0 CR LF CR LF.  "body" is what the caller must receive.                 *)
CRLF == <<"CR", "LF">>
ChunkFrame(data) == ToHex(Len(data)) \o CRLF \o data \o CRLF
Response(code, chunked, chunks) ==
    [bytes |-> <<StatusTok(code)>> \o CRLF
               \o (IF chunked THEN <<"TE">> \o CRLF ELSE <<>>) \o CRLF
               \o (IF chunked
                   THEN FoldLeft(LAMBDA acc, d : acc \o ChunkFrame(d), <<>>, chunks)
                        \o <<"0">> \o CRLF \o CRLF
                   ELSE FlattenSeq(chunks)),
     status |-> code,
     body |-> FlattenSeq(chunks)]

-----------------------------------------------------------------------------
(* struct web_session, as far as the client's control depends on it.       *)
(*   resolving   the resolver lookup has not called back                    *)
(*   watch       transport_watch > 0 (the receive watch is installed)       *)
(*   sending     send_watch > 0; sent: the request has been written         *)
(*   pos         bytes of the response read so far                          *)
(*   cur         current_header; te: the Transfer-Encoding header says      *)
(*               chunked; status: result.status; body: what the result     *)
(*               function has been handed                                   *)
Session(resp) ==
    [resp |-> resp, resolving |-> TRUE, watch |-> FALSE, sending |-> FALSE,
     sent |-> FALSE, pos |-> 0, header_done |-> FALSE, cur |-> <<>>,
     te |-> FALSE, use_chunk |-> FALSE, status |-> 0,
     chunck_state |-> "SIZE", chunk_size |-> 0, chunk_left |-> 0,
     body |-> <<>>]

Out(s) == [s |-> s, calls |-> <<>>, err |-> FALSE]

\* call_result_func: a non-zero status overrides result.status; the result
\* function sees result.status and the buffer (<<>> for NULL)
call_result_func(o, status, data) ==
    LET st == IF status # 0 THEN status ELSE o.s.status
    IN [o EXCEPT !.s.status = st, !.s.body = @ \o data,
                 !.calls = Append(@, st)]

IndexOfLF(b) == SelectInSeq(b, LAMBDA c : c = "LF")
Drop(b, n) == SubSeq(b, n + 1, Len(b))

\* seeded bug: a chunk that continues into the next read is passed on
\* without chunk_left being reduced
RECURSIVE decode_chunked_noleft(_, _)
decode_chunked_noleft(o, b) ==
    IF b = <<>> THEN o
    ELSE LET s == o.s
             pos == IndexOfLF(b)
         IN CASE s.chunck_state = "SIZE" ->
                   IF pos = 0 THEN [o EXCEPT !.s.cur = @ \o b]
                   ELSE IF pos = 1 \/ b[pos - 1] # "CR" THEN [o EXCEPT !.err = TRUE]
                   ELSE LET cur == s.cur \o SubSeq(b, 1, pos - 1)
                            n == strtoul(cur)
                        IN decode_chunked_noleft(
                             [o EXCEPT !.s.cur = cur, !.s.chunk_size = n,
                                       !.s.chunk_left = n,
                                       !.s.chunck_state = "DATA"],
                             Drop(b, pos))
              [] s.chunck_state = "R_BODY" ->
                   IF Head(b) # "CR" THEN [o EXCEPT !.err = TRUE]
                   ELSE decode_chunked_noleft([o EXCEPT !.s.chunck_state = "N_BODY"], Tail(b))
              [] s.chunck_state = "N_BODY" ->
                   IF Head(b) # "LF" THEN [o EXCEPT !.err = TRUE]
                   ELSE decode_chunked_noleft([o EXCEPT !.s.chunck_state = "SIZE"], Tail(b))
              [] s.chunck_state = "DATA" ->
                   IF s.chunk_size = 0 THEN [o EXCEPT !.s.cur = <<>>]
                   ELSE IF s.chunk_left <= Len(b)
                   THEN decode_chunked_noleft(
                          [call_result_func(o, 0, SubSeq(b, 1, s.chunk_left))
                             EXCEPT !.s.chunk_left = 0, !.s.cur = <<>>,
                                    !.s.chunck_state = "R_BODY"],
                          Drop(b, s.chunk_left))
                   ELSE call_result_func(o, 0, b)

\* decode_chunked: the four-state machine over one read's bytes.  The
\* sizes sent are well-formed hex, so the strtoul overflow check (errno,
\* ULONG_MAX) never fires and is left out.
RECURSIVE decode_chunked(_, _)
decode_chunked(o, b) ==
    IF b = <<>> THEN o
    ELSE LET s == o.s
             pos == IndexOfLF(b)
         IN CASE s.chunck_state = "SIZE" ->
                   IF pos = 0 THEN [o EXCEPT !.s.cur = @ \o b]
                   ELSE IF pos = 1 \/ b[pos - 1] # "CR" THEN [o EXCEPT !.err = TRUE]
                   ELSE LET cur == s.cur \o SubSeq(b, 1, pos - 1)
                            n == strtoul(cur)
                        IN decode_chunked(
                             [o EXCEPT !.s.cur = cur, !.s.chunk_size = n,
                                       !.s.chunk_left = n,
                                       !.s.chunck_state = "DATA"],
                             Drop(b, pos))
              [] s.chunck_state = "R_BODY" ->
                   IF Head(b) # "CR" THEN [o EXCEPT !.err = TRUE]
                   ELSE decode_chunked([o EXCEPT !.s.chunck_state = "N_BODY"], Tail(b))
              [] s.chunck_state = "N_BODY" ->
                   IF Head(b) # "LF" THEN [o EXCEPT !.err = TRUE]
                   ELSE decode_chunked([o EXCEPT !.s.chunck_state = "SIZE"], Tail(b))
              [] s.chunck_state = "DATA" ->
                   IF s.chunk_size = 0 THEN [o EXCEPT !.s.cur = <<>>]
                   ELSE IF s.chunk_left <= Len(b)
                   THEN decode_chunked(
                          [call_result_func(o, 0, SubSeq(b, 1, s.chunk_left))
                             EXCEPT !.s.chunk_left = 0, !.s.cur = <<>>,
                                    !.s.chunck_state = "R_BODY"],
                          Drop(b, s.chunk_left))
                   ELSE [call_result_func(o, 0, b)
                           EXCEPT !.s.chunk_left = @ - Len(b)]

\* handle_body: a plain body is handed on as read; a chunk error is
\* reported with status 400
handle_body(o, b) ==
    IF ~o.s.use_chunk
    THEN IF b # <<>> THEN call_result_func(o, 0, b) ELSE o
    ELSE LET d == decode_chunked(o, b)
         IN IF d.err THEN call_result_func(d, 400, <<>>) ELSE d

\* add_header_field: only Transfer-Encoding matters to the client
add_header_field(s) == IF s.cur[1] = "TE" THEN [s EXCEPT !.te = TRUE] ELSE s

\* the header loop of received_data over one read's bytes
RECURSIVE header_lines(_, _)
header_lines(o, b) ==
    IF b = <<>> THEN o
    ELSE LET pos == IndexOfLF(b)
             raw == SubSeq(b, 1, pos - 1)
             line == IF raw # <<>> /\ Last(raw) = "CR"
                     THEN SubSeq(raw, 1, Len(raw) - 1) ELSE raw
             cur == o.s.cur \o line
         IN IF pos = 0 THEN [o EXCEPT !.s.cur = @ \o b]
            ELSE IF cur = <<>>
            THEN handle_body(
                   [o EXCEPT !.s.header_done = TRUE,
                             !.s.use_chunk = o.s.use_chunk \/ o.s.te,
                             !.s.chunck_state = IF o.s.te THEN "SIZE" ELSE @,
                             !.s.chunk_left = IF o.s.te THEN 0 ELSE @],
                   Drop(b, pos))
            ELSE LET s1 == [o.s EXCEPT !.cur = cur,
                              !.status = IF @ = 0 /\ IsStatusLine(cur)
                                         THEN StatusOf(cur) ELSE @]
                 IN header_lines([o EXCEPT !.s = [add_header_field(s1)
                                                    EXCEPT !.cur = <<>>]],
                                 Drop(b, pos))

-----------------------------------------------------------------------------
(* The handlers.  Each returns an Out record.                              *)

\* resolv_result: no address (404), getaddrinfo fails (400), the socket
\* cannot be set up (409), or the watches are installed
ResolvOutcomes == {"noaddr", "badaddr", "nosock", "ok"}
resolv_result(s, outcome) ==
    LET s1 == [s EXCEPT !.resolving = FALSE]
    IN CASE outcome = "noaddr"  -> call_result_func(Out(s1), 404, <<>>)
         [] outcome = "badaddr" -> call_result_func(Out(s1), 400, <<>>)
         [] outcome = "nosock"  -> call_result_func(Out(s1), 409, <<>>)
         [] outcome = "ok"      ->
               Out([s1 EXCEPT !.watch = TRUE, !.sending = TRUE])

\* send_data: start_request builds the GET and process_send_buffer writes
\* it; the watch is removed once the body is done, or on an error condition
send_data(s, ok) ==
    Out([s EXCEPT !.sending = FALSE, !.sent = ok])

\* received_data on an error condition (G_IO_HUP, G_IO_ERR): status 400
received_hup(s) ==
    call_result_func(Out([s EXCEPT !.watch = FALSE]), 400, <<>>)

\* received_data when the read returns end of file or an error: the result
\* function is called once more with a NULL buffer
received_end(s) ==
    call_result_func(Out([s EXCEPT !.watch = FALSE]), 0, <<>>)

\* received_data reading k bytes: the body handler once the headers are
\* done, else the header loop; an error return removes the watch
received_data(s, k) ==
    LET b == SubSeq(s.resp.bytes, s.pos + 1, s.pos + k)
        o == Out([s EXCEPT !.pos = @ + k])
        r == IF s.header_done THEN handle_body(o, b) ELSE header_lines(o, b)
    IN IF r.err THEN [r EXCEPT !.s.watch = FALSE] ELSE r

\* the request has its answer: the result function has seen a terminal
\* call and no watch or lookup of the session remains
Finished(s) == ~s.resolving /\ ~s.watch
====
