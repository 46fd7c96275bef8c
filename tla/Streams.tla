------------------------------- MODULE Streams -------------------------------
(***************************************************************************)
(* The streams of the SDK, under any sequence of calls: a body is written  *)
(* into a file, a buffer of fixed size or a std::string, and read from a   *)
(* file or a copy of a buffer.                                             *)
(*                                                                         *)
(* HttpResponse writes the pieces of a body one after the other and seeks  *)
(* back to 0 when an attempt is repeated; nothing is truncated then.       *)
(* read_stream reads a request's stream piece by piece, from 0 again when  *)
(* an attempt is repeated, after get_size() has been announced; the file   *)
(* may grow or shrink in the meantime.                                     *)
(***************************************************************************)
EXTENDS Integers, Sequences

CONSTANTS
    Byte,     \* 0 is the NUL character
    Kinds,    \* of the streams below, those to look at
    MaxChunk, \* bound: bytes written at once, there at first, or skipped
    MaxLen,   \* bound: bytes of the stream's content
    MaxAsk,   \* bound: bytes asked for in a read
    Junk      \* what may follow a piece in libcurl's buffer up to a NUL

Outputs == {"file", "memory", "string"}
Inputs == {"file_in", "memory_in"}

ASSUME StreamAssumption ==
    /\ Byte \subseteq Nat /\ 0 \in Byte
    /\ Kinds \subseteq Outputs \cup Inputs
    /\ MaxChunk \in Nat \ {0}
    /\ MaxLen \in Nat
    /\ MaxAsk \in Nat
    /\ Junk \subseteq Seq(Byte \ {0})

VARIABLES
    kind,
    buf,    \* the file's bytes, the buffer, or the string
    base,   \* _start_pos of a file, 0 for the others
    size,   \* _size; -1 for an output stream that has none
    pos,    \* _pos, or _offset - _start_pos
    ret,    \* value returned by the last call
    since,  \* history: the bytes taken or given since the last seek
    from,   \* history: where that seek went
    within  \* history: a string was written below its end

history == <<since, from, within>>
streamVars == <<kind, buf, base, size, pos, ret, history>>

SeqUpTo(n) == UNION {[1 .. k -> Byte] : k \in 0 .. n}

Chunks == SeqUpTo(MaxChunk) \ {<<>>}

\* What a reader finds from the stream's start on.
Content == IF base < Len(buf) THEN SubSeq(buf, base + 1, Len(buf)) ELSE <<>>

IsSink == kind \in {"file", "memory"}

IsSource == kind \in Inputs

\* A string is no sink when it is written below its end; see StringAppends.
SinkBytes == IF IsSink THEN Content ELSE <<>>
SinkCap == IF IsSink THEN size ELSE 0
SinkAt == IF IsSink THEN pos ELSE 0
SinkRet == IF IsSink THEN ret ELSE 0

Target == INSTANCE Sink WITH
              bytes <- SinkBytes, cap <- SinkCap, at <- SinkAt, ret <- SinkRet

SourceBytes == IF IsSource THEN Content ELSE <<>>
SourceSize == IF IsSource THEN size ELSE 0
SourceAt == IF IsSource THEN pos ELSE 0
SourceGiven == IF IsSource THEN since ELSE <<>>

Origin == INSTANCE Source WITH
              bytes <- SourceBytes, size <- SourceSize, at <- SourceAt,
              given <- SourceGiven

\* A file or string that has something in it; the base may lie behind its end.
\* FileInputStream takes the file's size when it is given none.
StreamInit ==
    /\ kind \in Kinds
    /\ buf \in SeqUpTo(MaxChunk)
    /\ base \in (IF kind \in {"file", "file_in"} THEN 0 .. MaxChunk ELSE {0})
    /\ \/ kind \in {"file", "string"} /\ size = -1
       \/ kind \in {"memory", "memory_in"} /\ size = Len(buf)
       \/ kind = "file_in" /\ size \in {Len(buf) - base} \cup 0 .. MaxChunk
    /\ pos = 0
    /\ ret = 0
    /\ since = <<>>
    /\ from = 0
    /\ within = FALSE

Overlay(s, p, c) == Target!Overlay(s, p, c)

\* The history of a call that took or gave the bytes c, and of a seek to p.
Take(c) == since' = since \o c /\ UNCHANGED <<from, within>>

Sought(p) == since' = <<>> /\ from' = p /\ UNCHANGED within

-------------------------------------------------------------------------------
(* FileOutputStream *)

\* Mutant of FileWrite: the offset moves by what was asked for.
FileWriteAll(c) ==
    /\ kind = "file"
    /\ \E n \in 0 .. Len(c) :
          /\ buf' = Overlay(buf, base + pos, SubSeq(c, 1, n))
          /\ pos' = pos + Len(c)
          /\ ret' = n
          /\ Take(SubSeq(c, 1, n))
    /\ UNCHANGED <<kind, base, size>>

\* pwrite takes all, a part (a full disk), or fails.
FileWrite(c) ==
    /\ kind = "file"
    /\ \/ \E n \in 0 .. Len(c) :
             /\ buf' = Overlay(buf, base + pos, SubSeq(c, 1, n))
             /\ pos' = pos + n
             /\ ret' = n
             /\ Take(SubSeq(c, 1, n))
       \/ ret' = -1 /\ UNCHANGED <<buf, pos, history>>
    /\ UNCHANGED <<kind, base, size>>

FileSeek(p) ==
    /\ kind = "file"
    /\ pos' = p
    /\ ret' = 0
    /\ Sought(p)
    /\ UNCHANGED <<kind, buf, base, size>>

-------------------------------------------------------------------------------
(* MemoryOutputStream *)

MemoryWrite(c) ==
    /\ kind = "memory"
    /\ LET n == IF Len(c) > size - pos THEN size - pos ELSE Len(c)
       IN  /\ buf' = Overlay(buf, pos, SubSeq(c, 1, n))
           /\ pos' = pos + n
           /\ ret' = n
           /\ Take(SubSeq(c, 1, n))
    /\ UNCHANGED <<kind, base, size>>

MemorySeek(p) ==
    /\ kind = "memory"
    /\ IF p > size
         THEN ret' = -1 /\ UNCHANGED <<pos, history>>
         ELSE pos' = p /\ ret' = p /\ Sought(p)
    /\ UNCHANGED <<kind, buf, base, size>>

-------------------------------------------------------------------------------
(* StringOutputStream *)

\* The piece read as a C string: up to its first NUL, or beyond its end to one
\* that libcurl's buffer happens to hold.
CString(c) ==
    IF \E k \in 1 .. Len(c) : c[k] = 0
      THEN {SubSeq(c, 1, k - 1) : k \in
              {k \in 1 .. Len(c) : c[k] = 0 /\ \A j \in 1 .. k - 1 : c[j] # 0}}
      ELSE {c \o j : j \in Junk}

\* Behind the content it appends; inside it replaces n bytes, or as many as the
\* piece has, by the C string, and appends the piece's bytes from n on.
StringWrite(c) ==
    /\ kind = "string"
    /\ \/ /\ pos >= Len(buf)
          /\ buf' = buf \o c
          /\ UNCHANGED within
       \/ /\ pos < Len(buf)
          /\ within' = TRUE
          /\ LET n == Len(buf) - pos
             IN  \E s \in CString(c) :
                    buf' = SubSeq(buf, 1, pos) \o s \o
                             (IF Len(c) > n
                                THEN SubSeq(c, n + 1, Len(c))
                                ELSE SubSeq(buf, pos + Len(c) + 1, Len(buf)))
    /\ pos' = pos + Len(c)
    /\ ret' = Len(c)
    /\ since' = since \o c
    /\ UNCHANGED <<kind, base, size, from>>

\* Mutant of StringSeek: the gap is not filled.
StringSeekLeavesGap(p) ==
    /\ kind = "string"
    /\ pos' = p
    /\ ret' = p
    /\ Sought(p)
    /\ UNCHANGED <<kind, buf, base, size>>

\* A seek behind the end fills the gap with NULs.
StringSeek(p) ==
    /\ kind = "string"
    /\ buf' = IF p > Len(buf) THEN Overlay(buf, p - 1, <<0>>) ELSE buf
    /\ pos' = p
    /\ ret' = p
    /\ Sought(p)
    /\ UNCHANGED <<kind, base, size>>

-------------------------------------------------------------------------------
(* FileInputStream *)

\* What is asked for is cut to what remains of the window.  A negative number
\* of bytes is no size for pread, which fails; it also fails on an I/O error.
FileRead(n) ==
    /\ kind = "file_in"
    /\ LET m == IF n > size - pos THEN size - pos ELSE n
           c == Origin!Piece(Content, pos, m)
       IN  \/ /\ m >= 0
              /\ pos' = pos + Len(c)
              /\ ret' = Len(c)
              /\ Take(c)
           \/ ret' = -1 /\ UNCHANGED <<pos, history>>
    /\ UNCHANGED <<kind, buf, base, size>>

\* Mutant of FileInputSeek: the position is counted in the file.
FileInputSeekInFile(p) ==
    /\ kind = "file_in"
    /\ pos' = p - base
    /\ ret' = 0
    /\ Sought(p)
    /\ UNCHANGED <<kind, buf, base, size>>

FileInputSeek(p) ==
    /\ kind = "file_in"
    /\ pos' = p
    /\ ret' = 0
    /\ Sought(p)
    /\ UNCHANGED <<kind, buf, base, size>>

\* Someone else truncates the file or appends to it; the window stays.
Resize ==
    /\ kind = "file_in"
    /\ \/ \E n \in 0 .. Len(buf) : buf' = SubSeq(buf, 1, n)
       \/ Len(buf) < MaxLen /\ \E b \in Byte : buf' = Append(buf, b)
    /\ UNCHANGED <<kind, base, size, pos, ret, history>>

-------------------------------------------------------------------------------
(* MemoryInputStream; buf is the copy the constructor makes *)

MemoryRead(n) ==
    /\ kind = "memory_in"
    /\ LET m == IF n > size - pos THEN size - pos ELSE n
       IN  /\ pos' = pos + m
           /\ ret' = m
           /\ Take(Origin!Piece(buf, pos, m))
    /\ UNCHANGED <<kind, buf, base, size>>

MemoryInputSeek(p) ==
    /\ kind = "memory_in"
    /\ IF p > size
         THEN ret' = -1 /\ UNCHANGED <<pos, history>>
         ELSE pos' = p /\ ret' = p /\ Sought(p)
    /\ UNCHANGED <<kind, buf, base, size>>

-------------------------------------------------------------------------------
Write == \E c \in Chunks :
    /\ base + pos + Len(c) <= MaxLen
    /\ Len(buf) <= MaxLen
    /\ FileWrite(c) \/ MemoryWrite(c) \/ StringWrite(c)

Read == \E n \in 0 .. MaxAsk : FileRead(n) \/ MemoryRead(n)

Seek == \E p \in 0 .. MaxLen :
    \/ FileSeek(p) \/ MemorySeek(p) \/ StringSeek(p)
    \/ FileInputSeek(p) \/ MemoryInputSeek(p)

StreamNext == Write \/ Read \/ Seek \/ Resize

StreamSpec == StreamInit /\ [][StreamNext]_streamVars

-------------------------------------------------------------------------------
(***************************************************************************)
(* The inductive invariant behind the properties below: the variables hold *)
(* values of their types; a buffer is as long as it was made and read or   *)
(* written from its first byte, with the position in it; a string has its  *)
(* position behind what was written since the last seek.                   *)
(***************************************************************************)
StreamTypes ==
    /\ kind \in Outputs \cup Inputs
    /\ buf \in Seq(Byte)
    /\ base \in Nat
    /\ size \in Int
    /\ pos \in Nat
    /\ ret \in Int
    /\ since \in Seq(Byte)
    /\ from \in Nat
    /\ within \in BOOLEAN

Buffered ==
    /\ kind = "file" => size = -1
    /\ kind \in {"memory", "memory_in"} => /\ base = 0
                                          /\ size = Len(buf)
                                          /\ pos <= size

PositionKept == kind = "string" => pos = from + Len(since)

(***************************************************************************)
(* A file or a buffer is a sink: whatever the order of writes, short       *)
(* writes, failed writes and seeks, what a write says it took is where the *)
(* position was, no other byte changes, and nothing is ever put behind the *)
(* end of the caller's buffer (memory_stream.h:80).                        *)
(***************************************************************************)
ImplementsSink == Target!Spec

(***************************************************************************)
(* A file or a copy of a buffer is a source: what reads hand out is what   *)
(* the window holds at the position, and never lies behind get_size(),     *)
(* which has been announced to the service, whatever happens to the file.  *)
(***************************************************************************)
ImplementsSource == Origin!Spec

(***************************************************************************)
(* A string that is empty, or was sought to its end, takes a body whole,   *)
(* NUL characters and all (README.md:183): while no write starts below the *)
(* end, the bytes since the last seek lie where that seek went.            *)
(***************************************************************************)
StringAppends == kind = "string" /\ ~within =>
    /\ from + Len(since) <= Len(buf)
    /\ SubSeq(buf, from + 1, from + Len(since)) = since

StreamInv == StreamTypes /\ Buffered /\ PositionKept /\ StringAppends

===============================================================================
