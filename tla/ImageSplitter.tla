--------------------------- MODULE ImageSplitter ----------------------------
(***************************************************************************)
(* How readIMG (core/ffmpeg/stream.go) cuts ffmpeg's output into JPEG      *)
(* images, whatever the reads cut it into, and in whose memory the images  *)
(* it hands on lie.                                                        *)
(*                                                                         *)
(* imgBuffer.Bytes() is the slice of mem, the array behind imgBuffer,      *)
(* of length size that starts after base.  Frames carry slices of the same *)
(* array.                                                                  *)
(***************************************************************************)
EXTENDS Integers, Sequences, SequencesExt

CONSTANTS
  FF, SOI, EOI,  \* the byte that opens a marker, and the two markers' codes
  Other,         \* bytes that are none of these
  MaxRead,       \* bound: bytes of one read
  MaxBytes       \* bound: bytes of the stream

ASSUME SplitterAssumption ==
  /\ FF # SOI /\ FF # EOI /\ SOI # EOI
  /\ {FF, SOI, EOI} \cap Other = {}
  /\ {MaxRead, MaxBytes} \subseteq Nat

Byte == {FF, SOI, EOI} \cup Other

VARIABLES
  reads,      \* what the reads have returned so far
  mem,        \* the array behind imgBuffer
  base, size, \* the slice of it that is the buffer's content
  imgStart,   \* the content begins with a start-of-image marker
  markerPos,  \* where the search for the end goes on, from 0
  images      \* the images handed on: the slice, and the bytes it had then

splitterVars == <<reads, mem, base, size, imgStart, markerPos, images>>

Slice(a, from, to) == SubSeq(a, from + 1, to)   \* Go's a[from:to]

SplitterInit ==
  /\ reads = <<>> /\ mem = <<>> /\ base = 0 /\ size = 0
  /\ imgStart = FALSE /\ markerPos = 0 /\ images = <<>>

(* The positions, from 0, of a marker in data, not before pos.             *)
Marks(data, pos, code) ==
  {i \in pos .. (Len(data) - 2) : data[i + 1] = FF /\ data[i + 2] = code}

First(S) == CHOOSE i \in S : \A j \in S : i <= j

(* bytes.Buffer.Write: the bytes follow the content, over whatever the     *)
(* array holds there.                                                      *)
Written(chunk) ==
  LET kept == Slice(mem, 0, base + size) \o chunk
  IN  kept \o Slice(mem, Len(kept), Len(mem))

-----------------------------------------------------------------------------
(* One read.  Only the first image that the buffer completes is handed on; *)
(* what follows it waits for the next read.                                *)

FindStart(data) == IF imgStart THEN {0} ELSE Marks(data, 0, SOI)

NoStart(data) ==
  /\ FindStart(data) = {}
  /\ size' = Len(data)
  /\ UNCHANGED <<base, imgStart, markerPos, images>>

(* Mutants: the search goes on behind the last byte, which may be half a   *)
(* marker; what follows the image is thrown away.                          *)
NoEndFar(data) ==
  LET skip == First(FindStart(data))
      jpeg == Slice(data, skip, Len(data))
  IN  /\ FindStart(data) # {}
      /\ Marks(jpeg, markerPos, EOI) = {}
      /\ base' = base + skip
      /\ size' = Len(jpeg)
      /\ imgStart' = TRUE
      /\ markerPos' = Len(jpeg)
      /\ UNCHANGED images

NoEnd(data) ==
  LET skip == First(FindStart(data))
      jpeg == Slice(data, skip, Len(data))
  IN  /\ FindStart(data) # {}
      /\ Marks(jpeg, markerPos, EOI) = {}
      /\ base' = base + skip
      /\ size' = Len(jpeg)
      /\ imgStart' = TRUE
      /\ markerPos' = Len(jpeg) - 1
      /\ UNCHANGED images

CompleteResets(data) ==
  LET skip == First(FindStart(data))
      jpeg == Slice(data, skip, Len(data))
      ends == Marks(jpeg, markerPos, EOI)
      len  == First(ends) + 2
  IN  /\ FindStart(data) # {}
      /\ ends # {}
      /\ images' = Append(images, [from |-> base + skip, to |-> base + skip + len,
                                   bytes |-> Slice(jpeg, 0, len)])
      /\ size' = 0
      /\ base' = base + skip
      /\ imgStart' = FALSE
      /\ markerPos' = 0

(* What is left becomes a buffer of its own, behind the image; if nothing  *)
(* is left, Reset makes the buffer start over where the image lies.        *)
Complete(data) ==
  LET skip == First(FindStart(data))
      jpeg == Slice(data, skip, Len(data))
      ends == Marks(jpeg, markerPos, EOI)
      len  == First(ends) + 2
  IN  /\ FindStart(data) # {}
      /\ ends # {}
      /\ images' = Append(images, [from |-> base + skip, to |-> base + skip + len,
                                   bytes |-> Slice(jpeg, 0, len)])
      /\ size' = Len(jpeg) - len
      /\ base' = base + skip + (IF len < Len(jpeg) THEN len ELSE 0)
      /\ imgStart' = FALSE
      /\ markerPos' = 0

Read(chunk) ==
  LET data == Slice(mem, base, base + size) \o chunk
  IN  /\ reads' = Append(reads, chunk)
      /\ mem' = Written(chunk)
      /\ NoStart(data) \/ NoEnd(data) \/ Complete(data)

Input == FlattenSeq(reads)

SplitterNext ==
  \E n \in 1 .. MaxRead :
    /\ Len(Input) + n <= MaxBytes
    /\ \E chunk \in [1 .. n -> Byte] : Read(chunk)

SplitterSpec == SplitterInit /\ [][SplitterNext]_splitterVars

-----------------------------------------------------------------------------
(* Properties.                                                             *)

(* The images of a whole stream: from a start marker to the next end       *)
(* marker, and again behind it.                                            *)
ImagesOf(s) ==
  LET after[p \in 0 .. Len(s)] ==
        LET starts == Marks(s, p, SOI)
            ends   == Marks(s, First(starts), EOI)
        IN  IF starts = {} \/ ends = {} THEN <<>>
            ELSE <<Slice(s, First(starts), First(ends) + 2)>> \o after[First(ends) + 2]
  IN  after[0]

Found == [k \in 1 .. Len(images) |-> images[k].bytes]

AtMostOneEnds ==
  \A k \in 1 .. Len(reads) :
    LET upTo(j) == Len(ImagesOf(FlattenSeq(SubSeq(reads, 1, j))))
    IN  upTo(k) <= upTo(k - 1) + 1

(* However the reads cut the stream, a marker across two of them included, *)
(* the images found are the first images of the stream, in order, and, as  *)
(* long as no read completes two, all of them.                             *)
SplitsInput ==
  /\ IsPrefix(Found, ImagesOf(Input))
  /\ AtMostOneEnds => Len(images) = Len(ImagesOf(Input))

(* The frame that was handed on shares the buffer's memory: when the image *)
(* ends with its read, the next read writes over it.  When more bytes      *)
(* follow the image, the buffer goes on behind it and the frame is safe.   *)
EndedRead(k) ==
  \E j \in 1 .. Len(reads) :
    IsSuffix(images[k].bytes, FlattenSeq(SubSeq(reads, 1, j)))

OverwrittenOnlyAfterReset ==
  \A k \in 1 .. Len(images) :
    Slice(mem, images[k].from, images[k].to) # images[k].bytes => EndedRead(k)
=============================================================================
