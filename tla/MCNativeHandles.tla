-------------------------- MODULE MCNativeHandles --------------------------
(* Model-checking instance of NativeHandles.                               *)
EXTENDS NativeHandles

CONSTANTS l1, s1, s2, p1, f1, f2

AllHandles == {l1, s1, s2, p1, f1, f2}
Together == {{l1, s1, s2}, {p1, f1}, {f1, f2}}
BufferSizes == {-1, 0, 1}
DataLengths == {2}
=============================================================================
