SPECIFICATION QueueSpec
CONSTANTS
    Objects <- MCObjects
    None = None
    IndexError = IndexError
INVARIANTS BooksAgree
PROPERTIES ImplementsSortedSet
