--------------------------- MODULE MCJournalPager ---------------------------
\* JournalPager with the two values that tell old contents from new.
EXTENDS JournalPager

CONSTANTS z, a

MCVals == {z, a}
=============================================================================
