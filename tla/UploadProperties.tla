-------------------------- MODULE UploadProperties --------------------------
(***************************************************************************)
(* What Client::parallel_upload does for its caller and leaves behind.     *)
(***************************************************************************)
EXTENDS ParallelUpload

(***************************************************************************)
(* The variables of ParallelUpload hold values of their types.             *)
(***************************************************************************)
TypeOK ==
    /\ pc \in Steps
    /\ ret \in {0, 1}
    /\ size \in Nat
    /\ whole \in Nat \ {0}
    /\ part_size \in Nat \ {0}
    /\ blk \in Int
    /\ part_num \in Nat
    /\ off \in Nat /\ i \in Nat
    /\ ctx \in Seq([off : Nat, len : Nat])
    /\ answer \in Seq({"none", "ok", "fail"})
    /\ parts \subseteq Nat
    /\ session \in Sessions
    /\ \A k \in DOMAIN stored : stored[k] \in [off : Nat, len : Nat]
    /\ strays \in 0 .. faults  \* an upload is lost with its answer
    /\ tried \in 0 .. Retry
    /\ faults \in 0 .. Faults

(***************************************************************************)
(* The parts cut so far tile the file from its first byte: each starts     *)
(* where the one before ends, none is empty, all but the last have the     *)
(* full size, and the last ends with the file.                             *)
(***************************************************************************)
PartsTile ==
    /\ \A k \in 1 .. Len(ctx) :
          /\ ctx[k].off = (k - 1) * whole
          /\ ctx[k].len = IF k * whole <= size THEN whole ELSE size - ctx[k].off
          /\ ctx[k].len > 0
    /\ off = IF Len(ctx) * whole <= size THEN Len(ctx) * whole ELSE size

(***************************************************************************)
(* The loop runs over off and indexes an array sized by part_num: it never *)
(* writes past the array and leaves no context without a request, which    *)
(* the batch call would dereference (client.cpp:487-504).                  *)
(***************************************************************************)
ContextsFit ==
    /\ pc = "slice" /\ off < size => i < part_num
    /\ pc \notin {"init", "plan", "slice"} /\ session # "none" => i = part_num

(***************************************************************************)
(* However big the file is, the number of parts is one the service and     *)
(* add_part accept, provided the first count in calc_part_size fits an     *)
(* int (client.h:266-276).                                                 *)
(***************************************************************************)
PartsWithinLimit ==
    CeilDiv(size, Block(blk)) <= IntMax => part_num <= MaxParts

(***************************************************************************)
(* The upload is completed only when the service has every part and each   *)
(* part is the slice its number stands for, so that their concatenation is *)
(* the file; the request to complete names them all.                       *)
(***************************************************************************)
CompletesWholeFiles ==
    pc = "complete" /\ part_num <= MaxParts =>
        /\ stored = ctx
        /\ Len(ctx) = part_num
        /\ off = size
        /\ parts = 1 .. part_num

(***************************************************************************)
(* When the call returns, whichever of its returns it takes, the upload it *)
(* opened is not left open at the service unless the abort itself failed.  *)
(***************************************************************************)
NothingLeftOpen == pc = "returned" => session # "open"

(***************************************************************************)
(* The helper has a request exactly while the upload it names is open: no  *)
(* destructor aborts an upload that was never opened or is completed, and  *)
(* none forgets one.                                                       *)
(***************************************************************************)
HelperOwnsUpload == (parts # NoRequest) <=> (session = "open")

-------------------------------------------------------------------------------
(***************************************************************************)
(* The inductive invariant behind the properties above.                    *)
(***************************************************************************)

\* What Init fixes for good.
Chosen ==
    /\ size \in Sizes
    /\ blk \in BlkSizes
    /\ whole = calc_part_size(size, blk)
    /\ part_num = PartCount(size, whole)

\* Only the last part is ever cut.
Cursor ==
    /\ i = Len(ctx)
    /\ off < size => part_size = whole
    /\ pc \in {"init", "plan"} => ctx = <<>>
    /\ pc \notin {"init", "plan", "slice"} /\ session # "none" => off >= size

\* The service has the slices the contexts name, one of them for every part
\* that was answered well.
Uploaded ==
    /\ session = "none" => DOMAIN stored = {} /\ pc \in {"init", "returned"}
    /\ pc = "init" => session = "none"
    /\ pc \in {"init", "plan"} => answer = <<>>
    /\ pc \notin {"init", "plan"} /\ session # "none" => Len(answer) = part_num
    /\ pc \in {"plan", "slice"} => DOMAIN stored = {}
    /\ stored = [k \in DOMAIN stored |-> stored[k]]
    /\ \A k \in DOMAIN stored : k \in 1 .. Len(ctx) /\ stored[k] = ctx[k]
    /\ session = "open" =>
          \A k \in 1 .. Len(answer) : answer[k] = "ok" => k \in DOMAIN stored
    /\ pc = "collect" => \A k \in 1 .. Len(answer) : answer[k] # "none"
    /\ pc = "complete" => /\ \A k \in 1 .. Len(answer) : answer[k] = "ok"
                          /\ parts = AddedParts

\* Where the upload is open.
Working ==
    /\ pc \notin {"init", "returned"} => session = "open"
    /\ pc = "returned" => session # "open"
    /\ (parts # NoRequest) <=> (session = "open")

UploadInv ==
    /\ TypeOK
    /\ Chosen
    /\ PartsTile
    /\ Cursor
    /\ Uploaded
    /\ Working

-------------------------------------------------------------------------------
(***************************************************************************)
(* Statements of the documentation that the code does not keep.            *)
(***************************************************************************)

\* README.md:214, "upload a file to BOS concurrently": with no fault anywhere
\* the call succeeds and the object exists.
UploadSucceeds == pc = "returned" /\ faults = 0 =>
    ret = 0 /\ session = "completed"

===============================================================================
