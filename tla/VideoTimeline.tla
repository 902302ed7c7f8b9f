----------------------------- MODULE VideoTimeline -----------------------------
(* A video is a sequence of physical frames; which of them are read by OCR    *)
(* (extraction/video.py) and where the rectangle of something that was seen   *)
(* on a few of them lies on the others (transformation/sanitizer.py).  Frames *)
(* are counted from 1.  The places of a frame are numbered in one dimension;  *)
(* what moves over a plain background has Background on its sides.            *)
EXTENDS PythonBuiltins, SequencesExt

CONSTANT
  MaxEvidence  \* max_video_evidence_frames

Background == <<"bg", "", 0>>

Floor(n, d) == n \div d
Ceiling(n, d) == (n + d - 1) \div d

-----------------------------------------------------------------------------
(* Selection.  Evidence is taken twice a second, with the first and the last *)
(* frame, thinned out evenly beyond a maximum.                               *)

_sample_indices(total, fps) ==
  LET stride == Max({1, Rounded(fps, 2)})
      indices == SelectSeq([p \in 1 .. total |-> p],
                           LAMBDA p : (p - 1) % stride = 0 \/ p = total)
      last == Len(indices) - 1
      cap == Max({2, MaxEvidence})
  IN IF Len(indices) <= cap THEN ToSet(indices)
     ELSE {indices[1 + Rounded(k * last, cap - 1)] : k \in 0 .. cap - 1}

(* Edges that remain after the frames have been shifted onto each other; one *)
(* word more or less is taken to exceed the threshold.                       *)
Aligned(words) == SelectSeq(words, LAMBDA w : w # Background)
Novel(reference, candidate) == Aligned(reference) # Aligned(candidate)

security_scan_frame_indices(frames, fps) ==
  LET evidence == _sample_indices(Len(frames), fps)
      left(p) == Max({e \in evidence : e <= p})
      right(p) == Min({e \in evidence : e >= p})
  IN evidence \cup {p \in DOMAIN frames : /\ Novel(frames[left(p)], frames[p])
                                          /\ Novel(frames[right(p)], frames[p])}

-----------------------------------------------------------------------------
(* Tracks.  Anchors are the frames with the places of a thing, in order.     *)

hold_frames(fps) == Max({2, Rounded(fps, 2)})

(* What the rectangle touches on its straight way from one to the other.     *)
Between(a, b, p) ==
  LET span == b.page - a.page
      way(x, y) == x * (b.page - p) + y * (p - a.page)
  IN IF span = 0 THEN a.box
     ELSE Floor(way(Min(a.box), Min(b.box)), span) .. Ceiling(way(Max(a.box), Max(b.box)), span)

_video_interpolated_rect(anchors, p, hold) ==
  LET first == Head(anchors)
      last == anchors[Len(anchors)]
      pairs == {k \in 1 .. Len(anchors) - 1 :
                  anchors[k].page <= p /\ p <= anchors[k + 1].page}
  IN CASE p <= first.page -> IF first.page - p <= hold THEN first.box ELSE {}
       [] p > first.page /\ p >= last.page -> IF p - last.page <= hold THEN last.box ELSE {}
       [] OTHER -> Between(anchors[Min(pairs)], anchors[Min(pairs) + 1], p)
=============================================================================
