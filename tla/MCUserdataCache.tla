--------------------------- MODULE MCUserdataCache ---------------------------
\* Two objects and two addresses of blocks: one object with two blocks, two
\* objects that take the address of each other, strong and plain ones side by side.
EXTENDS UserdataCacheProps
=============================================================================
