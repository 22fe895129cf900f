-------------------------------- MODULE Tiny --------------------------------
(* The Tiny web server (tiny.c): one connection after the other, a request *)
(* read line by line, and a page, a file or the output of a CGI program    *)
(* sent back.  Clients may send less than a request, stop reading or reset *)
(* the connection.  The server's own output goes to a terminal.            *)
EXTENDS Rio

CONSTANTS MaxLine,      \* MAXLINE
          Requests,     \* what clients send
          UriOf,        \* uri -> [cgi, slash, path, args]: what strstr and index see
          Files         \* path -> [kind, readable, runnable, type, body]

VARIABLES at,           \* listen, accept, request, headers, answer, body, cgi,
                        \* child, down; caller: another program
          buf,          \* the line buffer of read_requesthdrs
          uri,          \* the uri of the request
          sent          \* all that the client sends on the connection

tinyVars == <<rioVars, at, buf, uri, sent>>

LineCall  == Asked("line", MaxLine)
\* Mutant: the line that ends the headers taken to be a lone newline.
BlankUnix == <<"nl">>
Blank     == <<"cr", "nl">>

(* Open_listenfd tries the addresses of the host in order: socket or bind  *)
(* may fail for each, then listen.  The wrapper exits when none is left.   *)
Open_listenfd == /\ at = "listen"
                 /\ at' \in {"accept", "down"}
                 /\ UNCHANGED <<rioVars, buf, uri, sent>>

(* main: Accept, and doit starts to read.  Of the request all arrives or a *)
(* first part, and then the client waits, closes its side or resets.       *)
Accept == /\ at = "accept"
          /\ \E r \in Requests, end \in {"open", "eof", "reset"} :
               \E n \in 0 .. Len(r) :
                 /\ sent' = SubSeq(r, 1, n)
                 /\ Connect(sent', end, LineCall)
          /\ at' = "request"
          /\ buf' \in {<<>>, Blank}               \* not initialised
          /\ UNCHANGED uri

-----------------------------------------------------------------------------
(* The answers *)

clienterror(errnum, cause) ==
  <<<<"HTTP/1.0", errnum>>, <<"type", "end">>, <<"title">>, <<"bgcolor">>,
    <<errnum>>, <<"reason", cause>>, <<"signature">>>>

Greeting == <<<<"HTTP/1.0", "200">>, <<"server">>>>

ServeStatic(f) == Greeting \o <<<<"length">>, <<"type", f.type, "end">>>>

(* parse_uri: the file; a static uri that ends in "/" means the home page. *)
Filename(u) == IF ~UriOf[u].cgi /\ UriOf[u].slash
               THEN UriOf[u].path \o "home.html" ELSE UriOf[u].path

Allowed(u, f) == f.kind = "file" /\ (IF UriOf[u].cgi THEN f.runnable ELSE f.readable)

(* doit after the headers: the first pieces of the answer, and what next. *)
FirstPieces(u) ==
  LET name == Filename(u)
      f    == Files[name]
  IN IF name \notin DOMAIN Files THEN clienterror("404", name)
     ELSE IF ~Allowed(u, f)      THEN clienterror("403", name)
     ELSE IF UriOf[u].cgi        THEN Greeting
     ELSE ServeStatic(f)

Then(u) == IF Filename(u) \notin DOMAIN Files \/ ~Allowed(u, Files[Filename(u)])
           THEN "answer" ELSE IF UriOf[u].cgi THEN "cgi" ELSE "body"

-----------------------------------------------------------------------------
(* doit *)

Tokens(line) == SelectSeq(line, LAMBDA b : b \notin {"cr", "nl"})

(* What sscanf did not fill in holds anything. *)
Methods(line) == IF Tokens(line) = <<>> THEN {"GET", "POST"} ELSE {Tokens(line)[1]}
Uris(line)    == IF Len(Tokens(line)) < 2 THEN DOMAIN UriOf ELSE {Tokens(line)[2]}

(* A request line; nothing at all ends the connection. *)
TakeRequest ==
  /\ at = "request" /\ call = Idle /\ reply # Error
  /\ \/ /\ reply = <<>>
        /\ at' = "accept"
        /\ UNCHANGED <<rioVars, uri>>
     \/ /\ reply # <<>>
        /\ \E m \in Methods(reply), u \in Uris(reply) :
             \/ /\ m # "GET"
                /\ todo' = clienterror("501", m)
                /\ at' = "answer"
                /\ UNCHANGED <<readVars, uri>>
             \/ /\ m = "GET"
                /\ uri' = u
                /\ at' = "headers"
                /\ call' = LineCall
                /\ UNCHANGED <<wire, ending, rio, reply, todo>>
        /\ UNCHANGED <<out, reading>>
  /\ UNCHANGED <<buf, sent>>

(* read_requesthdrs: Rio_readlineb leaves buf alone at the end of file. *)
Line == IF reply = <<>> THEN buf ELSE reply

TakeHeader ==
  /\ at = "headers" /\ call = Idle /\ reply # Error
  /\ buf' = Line
  /\ IF buf' = Blank
     THEN todo' = FirstPieces(uri) /\ at' = Then(uri) /\ UNCHANGED call
     ELSE call' = LineCall /\ UNCHANGED <<todo, at>>
  /\ UNCHANGED <<wire, ending, rio, reply, out, reading, uri, sent>>

(* Rio_readlineb exits on an error. *)
ReadFails == /\ call = Idle /\ reply = Error
             /\ at \in {"request", "headers"}
             /\ at' = "down"
             /\ UNCHANGED <<rioVars, buf, uri, sent>>

Answered == todo = <<>>

(* Close, back in main. *)
Hangup == /\ at = "answer" /\ Answered
          /\ at' = "accept"
          /\ UNCHANGED <<rioVars, buf, uri, sent>>

(* serve_static after the headers: a file of no bytes cannot be mapped. *)
SendFile == /\ at = "body" /\ Answered
            /\ LET f == Files[Filename(uri)]
               IN IF f.body = <<>> THEN at' = "down" /\ UNCHANGED todo
                  ELSE at' = "answer" /\ todo' = <<f.body>>
            /\ UNCHANGED <<readVars, out, reading, buf, uri, sent>>

(* adder.c: without "&" in the query it writes through a null pointer. *)
AdderOutput(args) == IF "&" \in args THEN <<<<"connection", "sum">>>> ELSE <<>>

(* serve_dynamic: the child writes to the client itself, or its program    *)
(* cannot be run.                                                          *)
Fork == /\ at = "cgi" /\ Answered
        /\ at' = "child"
        /\ todo' \in {AdderOutput(UriOf[uri].args), <<>>}
        /\ UNCHANGED <<readVars, out, reading, buf, uri, sent>>

Wait == /\ at = "child" /\ Answered
        /\ at' = "answer"
        /\ UNCHANGED <<rioVars, buf, uri, sent>>

(* A write on a connection that the client reset: Rio_writen exits, or a   *)
(* signal kills the writer, which may be the child.                        *)
BrokenPipe == /\ todo # <<>> /\ ending = "reset"
              /\ IF at = "child" THEN UNCHANGED at ELSE at' = "down"
              /\ todo' = <<>>
              /\ UNCHANGED <<readVars, out, reading, buf, uri, sent>>

-----------------------------------------------------------------------------
Connected == at \notin {"listen", "accept", "down", "caller", "off"}

(* The client stops reading, or resets the connection, at any time. *)
ClientStops == /\ Connected /\ reading
               /\ reading' = FALSE
               /\ ending' \in {ending, "reset"}
               /\ UNCHANGED <<wire, rio, call, reply, todo, out, at, buf, uri, sent>>

IO(step) == step /\ UNCHANGED <<at, buf, uri, sent>>

Server == \/ TakeRequest \/ TakeHeader \/ ReadFails
          \/ Hangup \/ SendFile \/ Fork \/ Wait \/ BrokenPipe
          \/ IO(Receive) \/ IO(AtEnd) \/ IO(CopyOut) \/ IO(WriteSome)

TinyInit == /\ wire = <<>> /\ ending = "eof" /\ rio = Empty
            /\ call = Idle /\ reply = <<>>
            /\ todo = <<>> /\ out = <<>> /\ reading = TRUE
            /\ at = "listen" /\ buf = <<>> /\ sent = <<>>
            /\ uri = CHOOSE u \in DOMAIN UriOf : TRUE

TinyNext == Open_listenfd \/ Accept \/ Server \/ ClientStops \/ IO(Interrupted)

(* One thread serves the connections; clients owe it nothing. *)
TinyFairness == WF_tinyVars(Server)

-----------------------------------------------------------------------------
(* What a client may get for a uri, for what it sent. *)
Pages(u) ==
  LET head == FlattenSeq(FirstPieces(u))
  IN CASE Then(u) = "answer" -> {head}
       [] Then(u) = "body"   -> {head \o Files[Filename(u)].body}
       [] Then(u) = "cgi"    -> {head \o p : p \in
            Prefixes(FlattenSeq(AdderOutput(UriOf[u].args)))}

AnswersTo(bytes) ==
  LET line == SubSeq(bytes, 1, Bytes!LineLength(bytes, MaxLine))
  IN UNION {IF m # "GET" THEN {FlattenSeq(clienterror("501", m))} ELSE Pages(u) :
              m \in Methods(line), u \in Uris(line)}

(* When the server hangs up on a client it has sent the whole answer to    *)
(* what that client asked for and nothing else, however the reads and      *)
(* writes were cut up, and whatever the client before sent or left unsent; *)
(* only the output of a CGI program may be cut off, by a reset.            *)
AnsweredWhole ==
  [][at = "answer" /\ at' = "accept" => out \in AnswersTo(sent)]_tinyVars

(* After every connection the server takes the next one, but for these     *)
(* clients: one that keeps its side open and never sends the empty line    *)
(* after its headers; one that closes its side before it, which the loop   *)
(* of read_requesthdrs does not notice; one that stops reading; and one    *)
(* that resets the connection, or asks for an empty file, and so ends the  *)
(* server.                                                                 *)
HeadersSent ==
  \E i \in 1 .. Len(sent) - 2 : SubSeq(sent, i, i + 2) = <<"nl", "cr", "nl">>
Waiting   == Connected /\ ending = "open" /\ ~HeadersSent
Spinning  == at = "headers" /\ ending = "eof" /\ ~HeadersSent
Deaf      == Connected /\ todo # <<>> /\ ~reading /\ ending # "reset"
Unmapped  == Then(uri) = "body" /\ Files[Filename(uri)].body = <<>>
TakenDown == at = "down" /\ (ending = "reset" \/ Unmapped)
MovesOn   == Connected ~> (at = "accept" \/ Waiting \/ Spinning \/ Deaf \/ TakenDown)
=============================================================================
