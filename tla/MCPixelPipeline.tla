-------------------------- MODULE MCPixelPipeline --------------------------
EXTENDS PixelPipeline

S(n, bits) == [x |-> n, on_line |-> TRUE, opaque |-> bits]
Off(n) == [x |-> n, on_line |-> FALSE, opaque |-> 0..7]

MCOams == {
    <<S(12, 0..7), Off(9), S(9, {0, 2, 5}), S(12, {1, 7})>>,
    <<S(8, {3, 4}), S(0, 0..7), S(3, {6, 7}), S(5, 0..7)>>,
    <<S(30, 0..7), S(31, 0..7), S(168, 0..7)>> }
MCScx == {0, 5, 255}
MCWx == {0, 4, 7, 20, 38, 255}
=============================================================================
