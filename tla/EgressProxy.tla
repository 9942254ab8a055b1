----------------------------- MODULE EgressProxy -----------------------------
(***************************************************************************)
(* One connection of the browser through mcp/egress_proxy.py: its first    *)
(* request is read, the address it asks for is looked up and dialled, and  *)
(* two pipes copy bytes, one each way, until one of the ends is through.   *)
(* A pipe that ends closes the writer it wrote to, and with it the other   *)
(* pipe's reader.  Bytes are counted, not told apart: a pipe has no way to *)
(* reorder them.  Connections share nothing.                               *)
(***************************************************************************)
EXTENDS Naturals

CONSTANTS
    MaxBytes    \* bound: what each end sends in one connection

ASSUME BytesBound == MaxBytes \in Nat

VARIABLES
    handle,     \* where the coroutine is
    pipe,       \* the pipe that reads from each end
    writer,     \* the writer to each end: cw and uw
    buffer,     \* bytes of each end that were not read yet
    end,        \* what each end has done: it talks, shut its side, or is gone
    sent, got   \* bytes each end has sent, and been sent

proxyVars == <<handle, pipe, writer, buffer, end, sent, got>>

Ends == {"client", "upstream"}
Other(e) == IF e = "client" THEN "upstream" ELSE "client"

ProxyTypeOK ==
    /\ handle \in {"head", "vet", "dial", "greet", "pipes", "over", "raised"}
    /\ pipe \in [Ends -> {"off", "on", "over"}]
    /\ writer \in [Ends -> {"none", "open", "closed"}]
    /\ buffer \in [Ends -> 0 .. MaxBytes]
    /\ end \in [Ends -> {"talks", "shut", "gone"}]
    /\ sent \in [Ends -> 0 .. MaxBytes] /\ got \in [Ends -> 0 .. MaxBytes]

ProxyInit ==
    /\ handle = "head"
    /\ pipe = [e \in Ends |-> "off"]
    /\ writer = [client |-> "open", upstream |-> "none"]
    /\ buffer = [e \in Ends |-> 0]
    /\ end = [e \in Ends |-> "talks"]
    /\ sent = [e \in Ends |-> 0] /\ got = [e \in Ends |-> 0]

-----------------------------------------------------------------------------
(* The ends: nothing obliges them to anything *)

Connected(e) == writer[e] # "none"

\* What arrives when the writer is closed is not read any more.
Sends(e) ==
    /\ Connected(e) /\ end[e] = "talks" /\ sent[e] < MaxBytes
    /\ sent' = [sent EXCEPT ![e] = @ + 1]
    /\ buffer' = IF writer[e] = "open" THEN [buffer EXCEPT ![e] = @ + 1] ELSE buffer
    /\ UNCHANGED <<handle, pipe, writer, end, got>>

\* The end closes or half-closes the connection; or it breaks off: a reset, also in
\* answer to bytes it does not want any more.
Leaves(e, how) ==
    /\ Connected(e)
    /\ <<end[e], how>> \in {<<"talks", "shut">>, <<"talks", "gone">>, <<"shut", "gone">>}
    /\ end' = [end EXCEPT ![e] = how]
    /\ UNCHANGED <<handle, pipe, writer, buffer, sent, got>>

-----------------------------------------------------------------------------
(* handle *)

Becomes(h, w) ==
    /\ handle' = h
    /\ writer' = w
    /\ UNCHANGED <<pipe, buffer, end, sent, got>>

GivesUp == Becomes("over", [writer EXCEPT !.client = "closed"])

\* An exception nobody catches: asyncio closes the client's writer, or does so only
\* when it is collected; nobody closes upstream's.
Raises == \E w \in {"open", "closed"} : Becomes("raised", [writer EXCEPT !.client = w])

\* The head is read (the rest may come later), there is none in time, the client is
\* gone, or what came is none.
ReadHead ==
    /\ handle = "head"
    /\ \/ end["client"] # "gone" /\ Becomes("vet", writer)
       \/ GivesUp \/ Raises

\* The target is refused (and nobody may be there to be told), or is what can be
\* dialled.
Vetted ==
    /\ handle = "vet"
    /\ Becomes("dial", writer) \/ GivesUp \/ Raises

Dialled ==
    /\ handle = "dial"
    /\ Becomes("greet", [writer EXCEPT !.upstream = "open"]) \/ GivesUp \/ Raises

\* CONNECT: the client is told; else the request is passed on.  What it is written to
\* may be gone, which shows now or later.
Greeted ==
    /\ handle = "greet"
    /\ \/ /\ handle' = "pipes"
          /\ pipe' = [e \in Ends |-> "on"]
          /\ UNCHANGED <<writer, buffer, end, sent, got>>
       \/ (\E e \in Ends : end[e] # "talks") /\ Raises

\* gather.
BothOver ==
    /\ handle = "pipes" /\ \A e \in Ends : pipe[e] = "over"
    /\ Becomes("over", writer)

-----------------------------------------------------------------------------
(* pipe: from one end to the writer of the other *)

Copies(e) ==
    /\ pipe[e] = "on" /\ buffer[e] > 0
    /\ end[e] # "gone" /\ end[Other(e)] # "gone" /\ writer[Other(e)] = "open"
    /\ buffer' = [buffer EXCEPT ![e] = @ - 1]
    /\ got' = [got EXCEPT ![Other(e)] = @ + 1]
    /\ UNCHANGED <<handle, pipe, writer, end, sent>>

\* As if the close came only after the loop and not in its `finally`.
ClosesAfterLoop(e) ==
    /\ pipe' = [pipe EXCEPT ![e] = "over"]
    /\ writer' = IF end[e] = "shut" THEN [writer EXCEPT ![Other(e)] = "closed"] ELSE writer
    /\ UNCHANGED <<handle, buffer, end, sent, got>>

Closes(e) ==
    /\ pipe' = [pipe EXCEPT ![e] = "over"]
    /\ writer' = [writer EXCEPT ![Other(e)] = "closed"]
    /\ UNCHANGED <<handle, buffer, end, sent, got>>

\* read returns nothing: the end has shut, or its own writer was closed, and all that
\* came before was read.
SaidSo(e) == end[e] = "shut" \/ writer[e] = "closed"
AtEnd(e) == buffer[e] = 0 /\ SaidSo(e)

FindsEnd(e) == pipe[e] = "on" /\ AtEnd(e) /\ Closes(e)

\* read, or the drain after a write, raises: what was not copied is lost.
Breaks(e) ==
    /\ pipe[e] = "on"
    /\ \/ end[e] = "gone"
       \/ buffer[e] > 0 /\ (end[Other(e)] = "gone" \/ writer[Other(e)] = "closed")
    /\ Closes(e)

-----------------------------------------------------------------------------
ProxyNext ==
    \/ \E e \in Ends : Sends(e)
    \/ \E e \in Ends, how \in {"shut", "gone"} : Leaves(e, how)
    \/ ReadHead \/ Vetted \/ Dialled \/ Greeted \/ BothOver
    \/ \E e \in Ends : Copies(e) \/ FindsEnd(e) \/ Breaks(e)

\* The awaits of handle have limits, a pipe that can go on does, and an end that does
\* not read any more is gone at some time.
ProxyFairness ==
    /\ WF_proxyVars(ReadHead \/ Vetted \/ Dialled \/ Greeted)
    /\ \A e \in Ends : WF_proxyVars(Copies(e) \/ FindsEnd(e) \/ Breaks(e))

ProxySpec == ProxyInit /\ [][ProxyNext]_proxyVars /\ ProxyFairness

-----------------------------------------------------------------------------
(* Properties *)

\* mcp/egress_proxy.py:30-38: each pipe closes the other's end, so once an end is
\* through, by a close or a reset and at any stage, both connections are closed in the
\* end: a browser's connections do not pile up.  (Not if handle was left by an
\* exception before the pipes.)
ConnectionsEnd ==
    \A e \in Ends :
        (end[e] # "talks") ~> (handle = "raised" \/ \A o \in Ends : writer[o] # "open")

\* mcp/egress_proxy.py:82: two pipes that close each other's writers lose nothing: if an
\* end shuts its side in good order while the other stays, all it sent has been passed
\* on when its pipe is over, although the other pipe ends at any time.
NothingLost ==
    \A e \in Ends :
        (pipe[e] = "over" /\ end[e] = "shut" /\ end[Other(e)] = "talks")
            => got[Other(e)] = sent[e]

=============================================================================
